---- MODULE Spec2Model ----
(***************************************************************************)
(* json-schema-diff: the diff walker (src/src/diff_walker.rs), the change  *)
(* taxonomy with is_breaking (src/src/types.rs), the reference resolver    *)
(* (src/src/resolver.rs) and the entry point diff (src/src/lib.rs).        *)
(*                                                                         *)
(* Encoding of the host AST (schemars):                                    *)
(*   Option<T>        the empty sequence (None) or a one-element sequence  *)
(*   Schema           a SchemaObject record whose field bool is "true" or  *)
(*                    "false" for Schema::Bool and "none" for              *)
(*                    Schema::Object                                       *)
(*   BTreeMap<K, V>   a sequence of [k, v] records sorted by key           *)
(*   BTreeSet<K>      a set; iteration follows the derived Ord             *)
(*   Option<Box<F>>   facet blocks (number, string, object, array,         *)
(*                    subschemas) are held by value: the parser stores     *)
(*                    None exactly when the block equals its default, and  *)
(*                    the walker only reads the fields of a block          *)
(*   serde_json::Value  [t, s, o]: JSON kind, literal text, object members *)
(***************************************************************************)
EXTENDS Integers, Sequences, FiniteSets, TLC

VARIABLES
    lhs_value,      \* diff's argument lhs, as parsed (lib.rs:18)
    rhs_value,      \* diff's argument rhs, as parsed (lib.rs:19)
    walker,         \* DiffWalker { changes, lhs_root, rhs_root }
    stack,          \* the call stack of do_diff, innermost call last
    result,         \* what diff returned: status "none" while it runs
    returned,       \* the change lists earlier calls of diff returned
    change_kind,    \* a ChangeKind handed to is_breaking
    breaking,       \* Option<bool>: what is_breaking answered
    resolver_root,  \* the RootSchema a Resolver is built for
    resolver,       \* Option<Resolver>: its ref_lookup
    resolved        \* Option<[reference, schema]>: last Resolver::resolve

vars == <<lhs_value, rhs_value, walker, stack, result, returned,
          change_kind, breaking, resolver_root, resolver, resolved>>

None == <<>>
Some(x) == <<x>>

RangeOf(s) == {s[i] : i \in 1..Len(s)}

Min(S) == CHOOSE x \in S : \A y \in S : x <= y

RECURSIVE SumSeq(_)
SumSeq(s) == IF s = <<>> THEN 0 ELSE s[1] + SumSeq(Tail(s))

RECURSIVE Flatten(_)
Flatten(ss) == IF ss = <<>> THEN <<>> ELSE ss[1] \o Flatten(Tail(ss))

(***************************************************************************)
(* types.rs: JsonSchemaType.  The derived Ord is the declaration order.    *)
(***************************************************************************)
JsonSchemaType == <<"String", "Number", "Integer", "Object", "Array", "Boolean", "Null">>

\* The elements of a BTreeSet<JsonSchemaType> in iteration order.
BTreeSetIter(S) == SelectSeq(JsonSchemaType, LAMBDA k : k \in S)

(***************************************************************************)
(* The host AST.                                                           *)
(***************************************************************************)
NumberValidationDefault ==
    [multiple_of |-> None, minimum |-> None, maximum |-> None,
     exclusive_minimum |-> None, exclusive_maximum |-> None]

StringValidationDefault == [pattern |-> None, min_length |-> None, max_length |-> None]

ObjectValidationDefault ==
    [required |-> {}, properties |-> <<>>, pattern_properties |-> <<>>,
     additional_properties |-> None]

ArrayValidationDefault == [items |-> [form |-> "None", s |-> <<>>]]

SubschemaValidationDefault == [any_of |-> None, not |-> None]

SchemaObjectDefault ==
    [bool |-> "none",
     id |-> None,
     instance_type |-> [form |-> "None", tys |-> <<>>],
     const_value |-> None,
     reference |-> None,
     format |-> None,
     number |-> NumberValidationDefault,
     string |-> StringValidationDefault,
     object |-> ObjectValidationDefault,
     array |-> ArrayValidationDefault,
     subschemas |-> SubschemaValidationDefault]

SchemaBool(b) == [SchemaObjectDefault EXCEPT !.bool = IF b THEN "true" ELSE "false"]

\* into_object taking false for the empty schema too.
into_object_open(schema) ==
    IF schema.bool \in {"true", "false"} THEN SchemaObjectDefault ELSE schema

\* Schema::into_object: true is the empty schema, false is {"not": {}}.
into_object(schema) ==
    IF schema.bool = "true" THEN SchemaObjectDefault
    ELSE IF schema.bool = "false"
         THEN [SchemaObjectDefault EXCEPT !.subschemas.not = Some(SchemaObjectDefault)]
         ELSE schema

\* BTreeMap::get on a sorted sequence of [k, v] records.
MapGet(map, key) ==
    LET hits == SelectSeq(map, LAMBDA e : e.k = key)
    IN  IF hits = <<>> THEN None ELSE Some(hits[1].v)

MapKeys(map) == {map[i].k : i \in 1..Len(map)}

(***************************************************************************)
(* diff_walker.rs: the type lattice.                                       *)
(***************************************************************************)
Simple(k) == [tag |-> "Simple", tys |-> <<k>>]
Multiple(ks) == [tag |-> "Multiple", tys |-> ks]
TyAny == [tag |-> "Any", tys |-> <<>>]
TyNever == [tag |-> "Never", tys |-> <<>>]

serde_value_to_own(val) ==
    CASE val.t = "Number" -> "Number"
      [] val.t = "Null" -> "Null"
      [] val.t = "String" -> "String"
      [] val.t = "Bool" -> "Boolean"
      [] val.t = "Array" -> "Array"
      [] val.t = "Object" -> "Object"

\* explode_simple without the integers a number stands for.
explode_simple_itself(k) == <<k>>

explode_simple(k) == IF k = "Number" THEN <<"Integer", "Number">> ELSE <<k>>

explode(ty) ==
    CASE ty.tag = "Simple" -> explode_simple(ty.tys[1])
      [] ty.tag = "Any" ->
            <<"String", "Number", "Integer", "Object", "Array", "Boolean", "Null">>
      [] ty.tag = "Never" -> <<>>
      [] ty.tag = "Multiple" ->
            Flatten([i \in 1..Len(ty.tys) |-> explode_simple(ty.tys[i])])

into_set(ty) == RangeOf(explode(ty))

\* is_true answering false for every schema.
is_true_never(schema_object) == FALSE

is_true(schema_object) == schema_object = SchemaObjectDefault

RECURSIVE effective_type(_)
\* effective_type asking for the const before the type.
effective_type_const_first(self) ==
    IF self.const_value # None THEN Simple(serde_value_to_own(self.const_value[1]))
    ELSE IF self.instance_type.form = "Single" THEN Simple(self.instance_type.tys[1])
    ELSE IF self.instance_type.form = "Vec" THEN Multiple(self.instance_type.tys)
    ELSE IF self.object.properties # <<>> THEN Simple("Object")
    ELSE IF self.subschemas.any_of # None
         THEN LET any_of == self.subschemas.any_of[1]
              IN  Multiple(BTreeSetIter(UNION {
                      RangeOf(explode(effective_type(into_object(any_of[i]))))
                          : i \in 1..Len(any_of)}))
    ELSE IF self.subschemas.not # None /\ is_true(into_object(self.subschemas.not[1]))
         THEN TyNever
    ELSE TyAny

effective_type(self) ==
    IF self.instance_type.form = "Single" THEN Simple(self.instance_type.tys[1])
    ELSE IF self.instance_type.form = "Vec" THEN Multiple(self.instance_type.tys)
    ELSE IF self.const_value # None THEN Simple(serde_value_to_own(self.const_value[1]))
    ELSE IF self.object.properties # <<>> THEN Simple("Object")
    ELSE IF self.subschemas.any_of # None
         THEN LET any_of == self.subschemas.any_of[1]
              IN  Multiple(BTreeSetIter(UNION {
                      RangeOf(explode(effective_type(into_object(any_of[i]))))
                          : i \in 1..Len(any_of)}))
    ELSE IF self.subschemas.not # None /\ is_true(into_object(self.subschemas.not[1]))
         THEN TyNever
    ELSE TyAny

\* number_validation answering the node's own facet only.
number_validation_own(self) == self.number

number_validation(self) ==
    IF self.number = NumberValidationDefault
    THEN IF self.subschemas.any_of # None /\ Len(self.subschemas.any_of[1]) = 1
         THEN into_object(self.subschemas.any_of[1][1]).number
         ELSE NumberValidationDefault
    ELSE self.number

(***************************************************************************)
(* diff_walker.rs: DiffScore, the cost of pairing two anyOf branches.      *)
(***************************************************************************)
Differs(a, b) == IF a # b THEN 1 ELSE 0

diff_score_NumberValidation(self, rhs) ==
    Differs(self.multiple_of, rhs.multiple_of)
    + Differs(self.minimum, rhs.minimum)
    + Differs(self.maximum, rhs.maximum)

diff_score_StringValidation(self, rhs) ==
    Differs(self.pattern, rhs.pattern)
    + Differs(self.min_length, rhs.min_length)
    + Differs(self.max_length, rhs.max_length)

diff_score_ObjectValidation(self, rhs) ==
    Differs(self.required, rhs.required)
    + Differs(self.properties, rhs.properties)
    + Differs(self.pattern_properties, rhs.pattern_properties)
    + Differs(self.additional_properties, rhs.additional_properties)

\* diff_score with the type comparison inverted.
diff_score_SchemaObject_inverted(self, rhs) ==
    (IF effective_type(self) = effective_type(rhs) THEN 10 ELSE 0)
    + diff_score_NumberValidation(self.number, rhs.number)
    + diff_score_StringValidation(self.string, rhs.string)
    + diff_score_ObjectValidation(self.object, rhs.object)

diff_score_SchemaObject(self, rhs) ==
    (IF effective_type(self) # effective_type(rhs) THEN 10 ELSE 0)
    + diff_score_NumberValidation(self.number, rhs.number)
    + diff_score_StringValidation(self.string, rhs.string)
    + diff_score_ObjectValidation(self.object, rhs.object)

diff_score(self, rhs) == diff_score_SchemaObject(into_object(self), into_object(rhs))

(***************************************************************************)
(* hungarian::minimize(&mat, len, len), called at diff_walker.rs:121.  The *)
(* crate is Kuhn-Munkres: every row is reduced by its minimum, then zeros  *)
(* are starred row by row, each row taking its first zero in a column no   *)
(* earlier row took.  When that stars a zero in every row, the starred     *)
(* assignment is the answer.  Otherwise the answer is an assignment of     *)
(* minimum total cost; which one among several is the crate's business,    *)
(* so minimize is the set of the assignments it may return.                *)
(***************************************************************************)
Cell(mat, n, i, j) == mat[(i - 1) * n + j]

Assignments(n) ==
    {p \in [1..n -> 1..n] : \A i, j \in 1..n : i # j => p[i] # p[j]}

AssignmentCost(mat, n, p) == SumSeq([i \in 1..n |-> Cell(mat, n, i, p[i])])

MinCostAssignments(mat, n) ==
    {p \in Assignments(n) :
        \A q \in Assignments(n) : AssignmentCost(mat, n, p) <= AssignmentCost(mat, n, q)}

RowMin(mat, n, i) == Min({Cell(mat, n, i, j) : j \in 1..n})

RECURSIVE StarZeros(_, _, _, _)
StarZeros(mat, n, i, stars) ==
    IF i > n THEN stars
    ELSE LET free == {j \in 1..n : /\ Cell(mat, n, i, j) = RowMin(mat, n, i)
                                   /\ \A k \in 1..Len(stars) : stars[k] # j}
         IN  StarZeros(mat, n, i + 1,
                       Append(stars, IF free = {} THEN 0 ELSE Min(free)))

minimize(mat, n) ==
    LET stars == StarZeros(mat, n, 1, <<>>)
    IN  IF \A i \in 1..n : stars[i] # 0
        THEN {stars}
        ELSE MinCostAssignments(mat, n)

(***************************************************************************)
(* diff_walker.rs: the methods of DiffWalker.  A method taking &mut self   *)
(* is an operator from the walker (and the nodes it may rewrite) to the    *)
(* walker after it; the recursive calls a method makes are returned as     *)
(* `calls`, in call order, and run by the stack machine below.             *)
(***************************************************************************)
Change(path, change) == [path |-> path, change |-> change]

push_all(self, new_changes) == [self EXCEPT !.changes = self.changes \o new_changes]

Call(json_path, comparing_any_of, lhs, rhs) ==
    [json_path |-> json_path, comparing_any_of |-> comparing_any_of,
     lhs |-> lhs, rhs |-> rhs]

Repeat(x, n) == [i \in 1..n |-> x]

any_of_matrix(lhs_any_of, rhs_any_of) ==
    LET len == Len(lhs_any_of)
    IN  [c \in 1..(len * Len(rhs_any_of)) |->
            diff_score(lhs_any_of[((c - 1) \div Len(rhs_any_of)) + 1],
                       rhs_any_of[((c - 1) % Len(rhs_any_of)) + 1])]

\* diff_any_of naming a branch diff by the LHS index of the pair.
diff_any_of_lhs_index(self, json_path, is_rhs_split, lhs, rhs) ==
    IF lhs.subschemas.any_of # None /\ rhs.subschemas.any_of # None
    THEN LET l == Len(lhs.subschemas.any_of[1])
             r == Len(rhs.subschemas.any_of[1])
             lhs_any_of == IF l <= r
                           THEN lhs.subschemas.any_of[1] \o Repeat(SchemaBool(FALSE), r - l)
                           ELSE lhs.subschemas.any_of[1]
             rhs_any_of == IF l <= r
                           THEN rhs.subschemas.any_of[1]
                           ELSE rhs.subschemas.any_of[1] \o Repeat(SchemaBool(FALSE), l - r)
             len == Len(lhs_any_of)
             mat == any_of_matrix(lhs_any_of, rhs_any_of)
         IN  {[self |-> self,
               lhs |-> [lhs EXCEPT !.subschemas.any_of = Some(lhs_any_of)],
               rhs |-> [rhs EXCEPT !.subschemas.any_of = Some(rhs_any_of)],
               calls |-> [i \in 1..len |->
                   Call(IF is_rhs_split
                        THEN json_path
                        ELSE json_path \o ".<anyOf:" \o ToString(i - 1) \o ">",
                        TRUE,
                        into_object(lhs_any_of[i]),
                        into_object(rhs_any_of[pairs[i]]))]]
              : pairs \in minimize(mat, len)}
    ELSE {[self |-> self, lhs |-> lhs, rhs |-> rhs, calls |-> <<>>]}

\* The set of outcomes of diff_any_of, one for every answer of minimize.
diff_any_of(self, json_path, is_rhs_split, lhs, rhs) ==
    IF lhs.subschemas.any_of # None /\ rhs.subschemas.any_of # None
    THEN LET l == Len(lhs.subschemas.any_of[1])
             r == Len(rhs.subschemas.any_of[1])
             lhs_any_of == IF l <= r
                           THEN lhs.subschemas.any_of[1] \o Repeat(SchemaBool(FALSE), r - l)
                           ELSE lhs.subschemas.any_of[1]
             rhs_any_of == IF l <= r
                           THEN rhs.subschemas.any_of[1]
                           ELSE rhs.subschemas.any_of[1] \o Repeat(SchemaBool(FALSE), l - r)
             len == Len(lhs_any_of)
             mat == any_of_matrix(lhs_any_of, rhs_any_of)
         IN  {[self |-> self,
               lhs |-> [lhs EXCEPT !.subschemas.any_of = Some(lhs_any_of)],
               rhs |-> [rhs EXCEPT !.subschemas.any_of = Some(rhs_any_of)],
               calls |-> [i \in 1..len |->
                   Call(IF is_rhs_split
                        THEN json_path
                        ELSE json_path \o ".<anyOf:" \o ToString(pairs[i] - 1) \o ">",
                        TRUE,
                        into_object(lhs_any_of[i]),
                        into_object(rhs_any_of[pairs[i]]))]]
              : pairs \in minimize(mat, len)}
    ELSE {[self |-> self, lhs |-> lhs, rhs |-> rhs, calls |-> <<>>]}

\* diff_instance_types pushing the added kinds before the removed ones.
diff_instance_types_adds_first(self, json_path, lhs, rhs) ==
    LET lhs_ty == into_set(effective_type(lhs))
        rhs_ty == into_set(effective_type(rhs))
        removed == BTreeSetIter(lhs_ty \ rhs_ty)
        added == BTreeSetIter(rhs_ty \ lhs_ty)
    IN  push_all(self,
            [i \in 1..Len(added) |->
                Change(json_path, [kind |-> "TypeAdd", added |-> added[i]])]
            \o
            [i \in 1..Len(removed) |->
                Change(json_path, [kind |-> "TypeRemove", removed |-> removed[i]])])

diff_instance_types(self, json_path, lhs, rhs) ==
    LET lhs_ty == into_set(effective_type(lhs))
        rhs_ty == into_set(effective_type(rhs))
        removed == BTreeSetIter(lhs_ty \ rhs_ty)
        added == BTreeSetIter(rhs_ty \ lhs_ty)
    IN  push_all(self,
            [i \in 1..Len(removed) |->
                Change(json_path, [kind |-> "TypeRemove", removed |-> removed[i]])]
            \o
            [i \in 1..Len(added) |->
                Change(json_path, [kind |-> "TypeAdd", added |-> added[i]])])

RECURSIVE do_normalize(_)
do_normalize(value) ==
    IF value.t = "Object"
    THEN [SchemaObjectDefault EXCEPT !.object.properties =
            [i \in 1..Len(value.o) |->
                [k |-> value.o[i].k, v |-> do_normalize(value.o[i].v)]]]
    ELSE [SchemaObjectDefault EXCEPT !.const_value = Some(value)]

\* normalize_const rewriting object-valued consts only.
normalize_const_objects_only(schema_object) ==
    IF schema_object.const_value # None /\ schema_object.const_value[1].t = "Object"
    THEN do_normalize(schema_object.const_value[1])
    ELSE schema_object

normalize_const(schema_object) ==
    IF schema_object.const_value # None
    THEN do_normalize(schema_object.const_value[1])
    ELSE schema_object

diff_const(self, json_path, lhs0, rhs0) ==
    LET lhs == normalize_const(lhs0)
        rhs == normalize_const(rhs0)
        l == lhs.const_value
        r == rhs.const_value
        new_changes ==
            IF l # None /\ r = None
            THEN <<Change(json_path, [kind |-> "ConstRemove", removed |-> l[1]])>>
            ELSE IF l = None /\ r # None
            THEN <<Change(json_path, [kind |-> "ConstAdd", added |-> r[1]])>>
            ELSE IF l # None /\ r # None /\ l[1] # r[1]
            THEN <<Change(json_path, [kind |-> "ConstRemove", removed |-> l[1]]),
                   Change(json_path, [kind |-> "ConstAdd", added |-> r[1]])>>
            ELSE <<>>
    IN  [self |-> push_all(self, new_changes), lhs |-> lhs, rhs |-> rhs]

diff_properties(self, json_path, lhs, rhs) ==
    LET lhs_props == MapKeys(lhs.object.properties)
        rhs_props == MapKeys(rhs.object.properties)
        lhs_additional_properties ==
            IF lhs.object.additional_properties = None
            THEN TRUE
            ELSE is_true(into_object(lhs.object.additional_properties[1]))
        removed == SelectSeq(lhs.object.properties, LAMBDA e : e.k \notin rhs_props)
        added == SelectSeq(rhs.object.properties, LAMBDA e : e.k \notin lhs_props)
        common == SelectSeq(rhs.object.properties, LAMBDA e : e.k \in lhs_props)
    IN  [self |-> push_all(self,
            [i \in 1..Len(removed) |->
                Change(json_path,
                       [kind |-> "PropertyRemove",
                        lhs_additional_properties |-> lhs_additional_properties,
                        removed |-> removed[i].k])]
            \o
            [i \in 1..Len(added) |->
                Change(json_path,
                       [kind |-> "PropertyAdd",
                        lhs_additional_properties |-> lhs_additional_properties,
                        added |-> added[i].k])]),
         calls |-> [i \in 1..Len(common) |->
            Call(json_path \o "." \o common[i].k,
                 FALSE,
                 into_object(MapGet(lhs.object.properties, common[i].k)[1]),
                 into_object(common[i].v))]]

\* diff_additional_properties naming the child without the leading dot.
diff_additional_properties_undotted(self, json_path, lhs, rhs) ==
    LET lhs_additional_properties == lhs.object.additional_properties
        rhs_additional_properties == rhs.object.additional_properties
    IN  [self |-> self,
         calls |->
            IF /\ lhs_additional_properties # None
               /\ rhs_additional_properties # None
               /\ rhs_additional_properties[1] # lhs_additional_properties[1]
            THEN <<Call(json_path \o "<additionalProperties>",
                        FALSE,
                        into_object(lhs_additional_properties[1]),
                        into_object(rhs_additional_properties[1]))>>
            ELSE <<>>]

diff_additional_properties(self, json_path, lhs, rhs) ==
    LET lhs_additional_properties == lhs.object.additional_properties
        rhs_additional_properties == rhs.object.additional_properties
    IN  [self |-> self,
         calls |->
            IF /\ lhs_additional_properties # None
               /\ rhs_additional_properties # None
               /\ rhs_additional_properties[1] # lhs_additional_properties[1]
            THEN <<Call(json_path \o ".<additionalProperties>",
                        FALSE,
                        into_object(lhs_additional_properties[1]),
                        into_object(rhs_additional_properties[1]))>>
            ELSE <<>>]

range_diff(json_path, lhs, rhs, range) ==
    IF lhs = None /\ rhs # None
    THEN <<Change(json_path, [kind |-> "RangeAdd", added |-> range, value |-> rhs[1]])>>
    ELSE IF lhs # None /\ rhs = None
    THEN <<Change(json_path, [kind |-> "RangeRemove", removed |-> range, value |-> lhs[1]])>>
    ELSE IF lhs # None /\ rhs # None /\ lhs[1] # rhs[1]
    THEN <<Change(json_path,
                  [kind |-> "RangeChange", changed |-> range,
                   old_value |-> lhs[1], new_value |-> rhs[1]])>>
    ELSE <<>>

diff_range(self, json_path, lhs, rhs) ==
    push_all(self,
        range_diff(json_path, number_validation(lhs).minimum,
                   number_validation(rhs).minimum, "Minimum")
        \o
        range_diff(json_path, number_validation(lhs).maximum,
                   number_validation(rhs).maximum, "Maximum"))

\* diff_array_items reporting the length of the LHS tuple in TupleChange.
diff_array_items_old_length(self, json_path, lhs, rhs) ==
    LET li == lhs.array.items
        ri == rhs.array.items
        zipped == IF Len(li.s) <= Len(ri.s) THEN Len(li.s) ELSE Len(ri.s)
    IN  CASE li.form = "Vec" /\ ri.form = "Vec" ->
                [self |-> push_all(self,
                    IF Len(li.s) # Len(ri.s)
                    THEN <<Change(json_path,
                                  [kind |-> "TupleChange", new_length |-> Len(li.s)])>>
                    ELSE <<>>),
                 calls |-> [i \in 1..zipped |->
                    Call(json_path \o "." \o ToString(i - 1), FALSE,
                         into_object(li.s[i]), into_object(ri.s[i]))]]
          [] li.form = "Single" /\ ri.form = "Single" ->
                [self |-> self,
                 calls |-> <<Call(json_path \o ".?", FALSE,
                                  into_object(li.s[1]), into_object(ri.s[1]))>>]
          [] li.form = "Single" /\ ri.form = "Vec" ->
                [self |-> push_all(self,
                    <<Change(json_path,
                             [kind |-> "ArrayToTuple", new_length |-> Len(ri.s)])>>),
                 calls |-> [i \in 1..Len(ri.s) |->
                    Call(json_path \o "." \o ToString(i - 1), FALSE,
                         into_object(li.s[1]), into_object(ri.s[i]))]]
          [] li.form = "Vec" /\ ri.form = "Single" ->
                [self |-> push_all(self,
                    <<Change(json_path,
                             [kind |-> "TupleToArray", old_length |-> Len(li.s)])>>),
                 calls |-> [i \in 1..Len(li.s) |->
                    Call(json_path \o "." \o ToString(i - 1), FALSE,
                         into_object(li.s[i]), into_object(ri.s[1]))]]
          [] OTHER -> [self |-> self, calls |-> <<>>]

\* The arms of the match that exist in a build without cfg(test); there
\* every remaining pair of forms (one side absent) is `_ => ()`.
diff_array_items(self, json_path, lhs, rhs) ==
    LET li == lhs.array.items
        ri == rhs.array.items
        zipped == IF Len(li.s) <= Len(ri.s) THEN Len(li.s) ELSE Len(ri.s)
    IN  CASE li.form = "Vec" /\ ri.form = "Vec" ->
                [self |-> push_all(self,
                    IF Len(li.s) # Len(ri.s)
                    THEN <<Change(json_path,
                                  [kind |-> "TupleChange", new_length |-> Len(ri.s)])>>
                    ELSE <<>>),
                 calls |-> [i \in 1..zipped |->
                    Call(json_path \o "." \o ToString(i - 1), FALSE,
                         into_object(li.s[i]), into_object(ri.s[i]))]]
          [] li.form = "Single" /\ ri.form = "Single" ->
                [self |-> self,
                 calls |-> <<Call(json_path \o ".?", FALSE,
                                  into_object(li.s[1]), into_object(ri.s[1]))>>]
          [] li.form = "Single" /\ ri.form = "Vec" ->
                [self |-> push_all(self,
                    <<Change(json_path,
                             [kind |-> "ArrayToTuple", new_length |-> Len(ri.s)])>>),
                 calls |-> [i \in 1..Len(ri.s) |->
                    Call(json_path \o "." \o ToString(i - 1), FALSE,
                         into_object(li.s[1]), into_object(ri.s[i]))]]
          [] li.form = "Vec" /\ ri.form = "Single" ->
                [self |-> push_all(self,
                    <<Change(json_path,
                             [kind |-> "TupleToArray", old_length |-> Len(li.s)])>>),
                 calls |-> [i \in 1..Len(li.s) |->
                    Call(json_path \o "." \o ToString(i - 1), FALSE,
                         into_object(li.s[i]), into_object(ri.s[1]))]]
          [] OTHER -> [self |-> self, calls |-> <<>>]

\* String's Ord on the names the model uses (BTreeSet<String> iteration).
NameOrder == <<"a", "b", "c">>

\* diff_required taking each difference the other way round.
diff_required_swapped(self, json_path, lhs, rhs) ==
    LET lhs_required == lhs.object.required
        rhs_required == rhs.object.required
        removed == SelectSeq(NameOrder, LAMBDA x : x \in rhs_required \ lhs_required)
        added == SelectSeq(NameOrder, LAMBDA x : x \in lhs_required \ rhs_required)
    IN  push_all(self,
            [i \in 1..Len(removed) |->
                Change(json_path, [kind |-> "RequiredRemove", property |-> removed[i]])]
            \o
            [i \in 1..Len(added) |->
                Change(json_path, [kind |-> "RequiredAdd", property |-> added[i]])])

diff_required(self, json_path, lhs, rhs) ==
    LET lhs_required == lhs.object.required
        rhs_required == rhs.object.required
        removed == SelectSeq(NameOrder, LAMBDA x : x \in lhs_required \ rhs_required)
        added == SelectSeq(NameOrder, LAMBDA x : x \in rhs_required \ lhs_required)
    IN  push_all(self,
            [i \in 1..Len(removed) |->
                Change(json_path, [kind |-> "RequiredRemove", property |-> removed[i]])]
            \o
            [i \in 1..Len(added) |->
                Change(json_path, [kind |-> "RequiredAdd", property |-> added[i]])])

\* reference.strip_prefix("#/definitions/") followed by definitions.get.
resolve_ref(root_schema, reference) ==
    LET hits == SelectSeq(root_schema.definitions,
                          LAMBDA e : reference = "#/definitions/" \o e.k)
    IN  IF hits = <<>> THEN None ELSE Some(hits[1].v)

\* resolve_references moving the definition out of the root it resolved in.
resolve_references_taking(self, lhs, rhs) ==
    LET lhs_inner == IF lhs.reference # None
                     THEN resolve_ref(self.lhs_root, lhs.reference[1])
                     ELSE None
        rhs_inner == IF rhs.reference # None
                     THEN resolve_ref(self.rhs_root, rhs.reference[1])
                     ELSE None
    IN  [self |-> IF lhs_inner # None
                  THEN [self EXCEPT !.lhs_root.definitions =
                            SelectSeq(@, LAMBDA e : lhs.reference[1] # "#/definitions/" \o e.k)]
                  ELSE self,
         lhs |-> IF lhs_inner # None THEN into_object(lhs_inner[1]) ELSE lhs,
         rhs |-> IF rhs_inner # None THEN into_object(rhs_inner[1]) ELSE rhs,
         res |-> "Ok"]

\* resolve_references failing on a reference it cannot resolve.
resolve_references_strict(self, lhs, rhs) ==
    LET lhs_inner == IF lhs.reference # None
                     THEN resolve_ref(self.lhs_root, lhs.reference[1])
                     ELSE None
        rhs_inner == IF rhs.reference # None
                     THEN resolve_ref(self.rhs_root, rhs.reference[1])
                     ELSE None
    IN  [self |-> self,
         lhs |-> IF lhs_inner # None THEN into_object(lhs_inner[1]) ELSE lhs,
         rhs |-> IF rhs_inner # None THEN into_object(rhs_inner[1]) ELSE rhs,
         res |-> IF \/ lhs.reference # None /\ lhs_inner = None
                    \/ rhs.reference # None /\ rhs_inner = None
                 THEN "Err" ELSE "Ok"]

\* resolve_references following a definition that is itself a $ref once more.
resolve_references_chasing(self, lhs, rhs) ==
    LET once(root, node) ==
            LET inner == IF node.reference # None
                         THEN resolve_ref(root, node.reference[1])
                         ELSE None
            IN  IF inner # None THEN into_object(inner[1]) ELSE node
    IN  [self |-> self,
         lhs |-> once(self.lhs_root, once(self.lhs_root, lhs)),
         rhs |-> once(self.rhs_root, once(self.rhs_root, rhs)),
         res |-> "Ok"]

resolve_references(self, lhs, rhs) ==
    LET lhs_inner == IF lhs.reference # None
                     THEN resolve_ref(self.lhs_root, lhs.reference[1])
                     ELSE None
        rhs_inner == IF rhs.reference # None
                     THEN resolve_ref(self.rhs_root, rhs.reference[1])
                     ELSE None
    IN  [self |-> self,
         lhs |-> IF lhs_inner # None THEN into_object(lhs_inner[1]) ELSE lhs,
         rhs |-> IF rhs_inner # None THEN into_object(rhs_inner[1]) ELSE rhs,
         res |-> "Ok"]

\* restrictions_for_single_type keeping every facet block of the node.
restrictions_for_single_type_whole(schema_object, ty) ==
    [SchemaObjectDefault EXCEPT
        !.instance_type = [form |-> "Single", tys |-> <<ty>>],
        !.string = schema_object.string,
        !.number = schema_object.number,
        !.object = schema_object.object,
        !.array = schema_object.array]

restrictions_for_single_type(schema_object, ty) ==
    LET ret == [SchemaObjectDefault EXCEPT
                    !.instance_type = [form |-> "Single", tys |-> <<ty>>]]
    IN  CASE ty = "String" -> [ret EXCEPT !.string = schema_object.string]
          [] ty \in {"Number", "Integer"} -> [ret EXCEPT !.number = schema_object.number]
          [] ty = "Object" -> [ret EXCEPT !.object = schema_object.object]
          [] ty = "Array" -> [ret EXCEPT !.array = schema_object.array]
          [] OTHER -> ret

split_types(schema_object) ==
    LET ty == effective_type(schema_object)
    IN  IF ty.tag = "Multiple" /\ schema_object.subschemas.any_of = None
        THEN [schema_object |->
                [SchemaObjectDefault EXCEPT !.subschemas.any_of =
                    Some([i \in 1..Len(ty.tys) |->
                            restrictions_for_single_type(schema_object, ty.tys[i])])],
              is_split |-> TRUE]
        ELSE [schema_object |-> schema_object, is_split |-> FALSE]

(***************************************************************************)
(* do_diff as a stack machine.  A frame is one activation of do_diff: its  *)
(* arguments (lhs and rhs are the clones the caller handed over), the      *)
(* statement it is at, the two split flags, and the recursive calls the    *)
(* statement it just ran still has to make.                                *)
(***************************************************************************)
Frame(call) ==
    [json_path |-> call.json_path,
     comparing_any_of |-> call.comparing_any_of,
     lhs |-> call.lhs,
     rhs |-> call.rhs,
     pc |-> "resolve_references",
     is_lhs_split |-> FALSE,
     is_rhs_split |-> FALSE,
     calls |-> <<>>]

Top == stack[Len(stack)]

SetTop(frame) == [stack EXCEPT ![Len(stack)] = frame]

AtStatement(pc) == stack # <<>> /\ Top.pc = pc /\ Top.calls = <<>>

WalkerVarsOnly ==
    UNCHANGED <<change_kind, breaking, resolver_root, resolver, resolved>>

NewWalker(lhs_root, rhs_root) ==
    [changes |-> <<>>, lhs_root |-> lhs_root, rhs_root |-> rhs_root]

NoResult == [status |-> "none", changes |-> <<>>]

\* lib.rs:26-30: walker.diff("", clone of lhs_root.schema, clone of rhs_root.schema)
diff ==
    /\ result.status = "none"
    /\ stack = <<>>
    /\ stack' = <<Frame(Call("", FALSE, walker.lhs_root.schema, walker.rhs_root.schema))>>
    /\ UNCHANGED <<lhs_value, rhs_value, walker, result, returned>>
    /\ WalkerVarsOnly

\* do_diff, line 545.  An Err would leave through `?` up to diff's caller.
do_resolve_references ==
    /\ AtStatement("resolve_references")
    /\ LET r == resolve_references(walker, Top.lhs, Top.rhs)
       IN  IF r.res = "Ok"
           THEN /\ walker' = r.self
                /\ stack' = SetTop([Top EXCEPT !.lhs = r.lhs, !.rhs = r.rhs,
                                               !.pc = "split_types"])
                /\ UNCHANGED result
           ELSE /\ walker' = r.self
                /\ stack' = <<>>
                /\ result' = [status |-> "Err", changes |-> <<>>]
    /\ UNCHANGED <<lhs_value, rhs_value, returned>>
    /\ WalkerVarsOnly

\* do_diff, lines 546-547
do_split_types ==
    /\ AtStatement("split_types")
    /\ LET l == split_types(Top.lhs)
           r == split_types(Top.rhs)
       IN  stack' = SetTop([Top EXCEPT !.lhs = l.schema_object,
                                       !.rhs = r.schema_object,
                                       !.is_lhs_split = l.is_split,
                                       !.is_rhs_split = r.is_split,
                                       !.pc = "diff_any_of"])
    /\ UNCHANGED <<lhs_value, rhs_value, walker, result, returned>>
    /\ WalkerVarsOnly

\* do_diff, line 548
do_diff_any_of ==
    /\ AtStatement("diff_any_of")
    /\ \E r \in diff_any_of(walker, Top.json_path, Top.is_rhs_split, Top.lhs, Top.rhs) :
        /\ walker' = r.self
        /\ stack' = SetTop([Top EXCEPT !.lhs = r.lhs, !.rhs = r.rhs,
                                       !.calls = r.calls,
                                       !.pc = "diff_instance_types"])
    /\ UNCHANGED <<lhs_value, rhs_value, result, returned>>
    /\ WalkerVarsOnly

\* do_diff, lines 549-551
do_diff_instance_types ==
    /\ AtStatement("diff_instance_types")
    /\ walker' = IF ~Top.comparing_any_of
                 THEN diff_instance_types(walker, Top.json_path, Top.lhs, Top.rhs)
                 ELSE walker
    /\ stack' = SetTop([Top EXCEPT !.pc = "diff_const"])
    /\ UNCHANGED <<lhs_value, rhs_value, result, returned>>
    /\ WalkerVarsOnly

\* do_diff, lines 552-555
do_diff_const ==
    /\ AtStatement("diff_const")
    /\ LET r == diff_const(walker, Top.json_path, Top.lhs, Top.rhs)
       IN  /\ walker' = r.self
           /\ stack' = SetTop([Top EXCEPT
                    !.lhs = r.lhs, !.rhs = r.rhs,
                    !.pc = IF ~Top.is_lhs_split /\ ~Top.is_rhs_split
                           THEN "diff_properties"
                           ELSE "return"])
    /\ UNCHANGED <<lhs_value, rhs_value, result, returned>>
    /\ WalkerVarsOnly

\* do_diff, line 556
do_diff_properties ==
    /\ AtStatement("diff_properties")
    /\ LET r == diff_properties(walker, Top.json_path, Top.lhs, Top.rhs)
       IN  /\ walker' = r.self
           /\ stack' = SetTop([Top EXCEPT !.calls = r.calls, !.pc = "diff_range"])
    /\ UNCHANGED <<lhs_value, rhs_value, result, returned>>
    /\ WalkerVarsOnly

\* do_diff, line 557
do_diff_range ==
    /\ AtStatement("diff_range")
    /\ walker' = diff_range(walker, Top.json_path, Top.lhs, Top.rhs)
    /\ stack' = SetTop([Top EXCEPT !.pc = "diff_additional_properties"])
    /\ UNCHANGED <<lhs_value, rhs_value, result, returned>>
    /\ WalkerVarsOnly

\* do_diff, line 558
do_diff_additional_properties ==
    /\ AtStatement("diff_additional_properties")
    /\ LET r == diff_additional_properties(walker, Top.json_path, Top.lhs, Top.rhs)
       IN  /\ walker' = r.self
           /\ stack' = SetTop([Top EXCEPT !.calls = r.calls, !.pc = "diff_array_items"])
    /\ UNCHANGED <<lhs_value, rhs_value, result, returned>>
    /\ WalkerVarsOnly

\* do_diff, line 559
do_diff_array_items ==
    /\ AtStatement("diff_array_items")
    /\ LET r == diff_array_items(walker, Top.json_path, Top.lhs, Top.rhs)
       IN  /\ walker' = r.self
           /\ stack' = SetTop([Top EXCEPT !.calls = r.calls, !.pc = "diff_required"])
    /\ UNCHANGED <<lhs_value, rhs_value, result, returned>>
    /\ WalkerVarsOnly

\* do_diff, line 560
do_diff_required ==
    /\ AtStatement("diff_required")
    /\ walker' = diff_required(walker, Top.json_path, Top.lhs, Top.rhs)
    /\ stack' = SetTop([Top EXCEPT !.pc = "return"])
    /\ UNCHANGED <<lhs_value, rhs_value, result, returned>>
    /\ WalkerVarsOnly

\* The next recursive call of the statement just run: self.diff(..) or
\* self.do_diff(..) on the clones made for it.
do_diff ==
    /\ stack # <<>>
    /\ Top.calls # <<>>
    /\ stack' = Append(SetTop([Top EXCEPT !.calls = Tail(Top.calls)]),
                       Frame(Head(Top.calls)))
    /\ UNCHANGED <<lhs_value, rhs_value, walker, result, returned>>
    /\ WalkerVarsOnly

\* return that leaves every activation but the outermost where it is.
return_staying ==
    /\ AtStatement("return")
    /\ stack' = IF Len(stack) = 1 THEN <<>> ELSE stack
    /\ result' = IF Len(stack) = 1
                 THEN [status |-> "Ok", changes |-> walker.changes]
                 ELSE result
    /\ UNCHANGED <<lhs_value, rhs_value, walker, returned>>
    /\ WalkerVarsOnly

\* do_diff, line 562: Ok(()); the outermost return is lib.rs:32.
return ==
    /\ AtStatement("return")
    /\ stack' = SubSeq(stack, 1, Len(stack) - 1)
    /\ result' = IF Len(stack) = 1
                 THEN [status |-> "Ok", changes |-> walker.changes]
                 ELSE result
    /\ UNCHANGED <<lhs_value, rhs_value, walker, returned>>
    /\ WalkerVarsOnly

Walk ==
    \/ diff
    \/ do_resolve_references
    \/ do_split_types
    \/ do_diff_any_of
    \/ do_diff_instance_types
    \/ do_diff_const
    \/ do_diff_properties
    \/ do_diff_range
    \/ do_diff_additional_properties
    \/ do_diff_array_items
    \/ do_diff_required
    \/ do_diff
    \/ return

(***************************************************************************)
(* Parsed schemas, as serde_json::from_value builds them (lib.rs:18-19).   *)
(***************************************************************************)
Ty(k) == [SchemaObjectDefault EXCEPT !.instance_type = [form |-> "Single", tys |-> <<k>>]]
TyVec(ks) == [SchemaObjectDefault EXCEPT !.instance_type = [form |-> "Vec", tys |-> ks]]
WithMin(s, v) == [s EXCEPT !.number.minimum = Some(v)]
WithMax(s, v) == [s EXCEPT !.number.maximum = Some(v)]
WithExclusiveMin(s, v) == [s EXCEPT !.number.exclusive_minimum = Some(v)]
WithExclusiveMax(s, v) == [s EXCEPT !.number.exclusive_maximum = Some(v)]
WithFormat(s, name) == [s EXCEPT !.format = Some(name)]
WithPattern(s, regex) == [s EXCEPT !.string.pattern = Some(regex)]
WithMinLength(s, v) == [s EXCEPT !.string.min_length = Some(v)]
WithMaxLength(s, v) == [s EXCEPT !.string.max_length = Some(v)]
WithId(s, id) == [s EXCEPT !.id = Some(id)]
WithProps(s, props) == [s EXCEPT !.object.properties = props]
WithRequired(s, names) == [s EXCEPT !.object.required = names]
WithAdditional(s, schema) == [s EXCEPT !.object.additional_properties = Some(schema)]
WithItem(s, schema) == [s EXCEPT !.array.items = [form |-> "Single", s |-> <<schema>>]]
WithTuple(s, schemas) == [s EXCEPT !.array.items = [form |-> "Vec", s |-> schemas]]
WithConst(s, value) == [s EXCEPT !.const_value = Some(value)]
AnyOf(schemas) == [SchemaObjectDefault EXCEPT !.subschemas.any_of = Some(schemas)]
Ref(reference) == [SchemaObjectDefault EXCEPT !.reference = Some(reference)]
Entry(k, v) == [k |-> k, v |-> v]
JsonString(text) == [t |-> "String", s |-> text, o |-> <<>>]
JsonNumber(text) == [t |-> "Number", s |-> text, o |-> <<>>]
JsonObject(members) == [t |-> "Object", s |-> "", o |-> members]
Root(schema, definitions) == [schema |-> schema, definitions |-> definitions]

(***************************************************************************)
(* types.rs: ChangeKind::is_breaking.  A Range is [bound, value].          *)
(***************************************************************************)
RangeValue(bound, value) == [bound |-> bound, value |-> value]

\* range_change_is_breaking with a strict comparison in the Minimum arm.
range_change_is_breaking_strict(old_value, new_value) ==
    IF /\ old_value.bound = "ExclusiveMinimum" /\ new_value.bound = "Minimum"
       /\ old_value.value >= new_value.value THEN FALSE
    ELSE IF /\ old_value.bound = "ExclusiveMaximum" /\ new_value.bound = "Maximum"
            /\ old_value.value <= new_value.value THEN FALSE
    ELSE IF /\ old_value.bound = "Minimum" /\ new_value.bound = "Minimum"
            /\ old_value.value > new_value.value THEN FALSE
    ELSE IF /\ old_value.bound = "ExclusiveMinimum" /\ new_value.bound = "ExclusiveMinimum"
            /\ old_value.value >= new_value.value THEN FALSE
    ELSE IF /\ old_value.bound = "Maximum" /\ new_value.bound = "Maximum"
            /\ old_value.value <= new_value.value THEN FALSE
    ELSE IF /\ old_value.bound = "ExclusiveMaximum" /\ new_value.bound = "ExclusiveMaximum"
            /\ old_value.value <= new_value.value THEN FALSE
    ELSE TRUE

range_change_is_breaking(old_value, new_value) ==
    IF /\ old_value.bound = "ExclusiveMinimum" /\ new_value.bound = "Minimum"
       /\ old_value.value >= new_value.value THEN FALSE
    ELSE IF /\ old_value.bound = "ExclusiveMaximum" /\ new_value.bound = "Maximum"
            /\ old_value.value <= new_value.value THEN FALSE
    ELSE IF /\ old_value.bound = "Minimum" /\ new_value.bound = "Minimum"
            /\ old_value.value >= new_value.value THEN FALSE
    ELSE IF /\ old_value.bound = "ExclusiveMinimum" /\ new_value.bound = "ExclusiveMinimum"
            /\ old_value.value >= new_value.value THEN FALSE
    ELSE IF /\ old_value.bound = "Maximum" /\ new_value.bound = "Maximum"
            /\ old_value.value <= new_value.value THEN FALSE
    ELSE IF /\ old_value.bound = "ExclusiveMaximum" /\ new_value.bound = "ExclusiveMaximum"
            /\ old_value.value <= new_value.value THEN FALSE
    ELSE TRUE

\* is_breaking with the two Property arms exchanged.
is_breaking_property_swapped(self) ==
    CASE self.kind = "PropertyAdd" -> ~self.lhs_additional_properties
      [] self.kind = "PropertyRemove" -> self.lhs_additional_properties
      [] self.kind \in {"TypeRemove", "ConstAdd", "RangeAdd", "ArrayToTuple",
                        "TupleChange", "RequiredAdd", "FormatAdd", "FormatChange",
                        "PatternAdd", "PatternChange", "MinLengthAdd",
                        "MaxLengthAdd"} -> TRUE
      [] self.kind = "RangeChange" ->
            range_change_is_breaking(self.old_value, self.new_value)
      [] self.kind = "MinLengthChange" -> self.new_value > self.old_value
      [] self.kind = "MaxLengthChange" -> self.new_value < self.old_value
      [] OTHER -> FALSE

is_breaking(self) ==
    CASE self.kind = "TypeAdd" -> FALSE
      [] self.kind = "TypeRemove" -> TRUE
      [] self.kind = "ConstAdd" -> TRUE
      [] self.kind = "ConstRemove" -> FALSE
      [] self.kind = "PropertyAdd" -> self.lhs_additional_properties
      [] self.kind = "PropertyRemove" -> ~self.lhs_additional_properties
      [] self.kind = "RangeAdd" -> TRUE
      [] self.kind = "RangeRemove" -> FALSE
      [] self.kind = "RangeChange" ->
            range_change_is_breaking(self.old_value, self.new_value)
      [] self.kind = "TupleToArray" -> FALSE
      [] self.kind = "ArrayToTuple" -> TRUE
      [] self.kind = "TupleChange" -> TRUE
      [] self.kind = "RequiredRemove" -> FALSE
      [] self.kind = "RequiredAdd" -> TRUE
      [] self.kind = "FormatAdd" -> TRUE
      [] self.kind = "FormatRemove" -> FALSE
      [] self.kind = "FormatChange" -> TRUE
      [] self.kind = "PatternAdd" -> TRUE
      [] self.kind = "PatternRemove" -> FALSE
      [] self.kind = "PatternChange" -> TRUE
      [] self.kind = "MinLengthAdd" -> TRUE
      [] self.kind = "MinLengthRemove" -> FALSE
      [] self.kind = "MinLengthChange" -> self.new_value > self.old_value
      [] self.kind = "MaxLengthAdd" -> TRUE
      [] self.kind = "MaxLengthRemove" -> FALSE
      [] self.kind = "MaxLengthChange" -> self.new_value < self.old_value

(***************************************************************************)
(* resolver.rs: Resolver.  ref_lookup is a map held as a set of [k, v]     *)
(* entries with distinct k; only insert and get are used on it.            *)
(***************************************************************************)
LookupInsert(map, key, value) == {e \in map : e.k # key} \cup {[k |-> key, v |-> value]}

LookupGet(map, key) ==
    IF \E e \in map : e.k = key
    THEN Some((CHOOSE e \in map : e.k = key).v)
    ELSE None

get_schema_id(schema) == IF schema.bool = "none" THEN schema.id ELSE None

\* The body of the loop of for_schema, lines 14-24.
for_schema_entry(ref_lookup, root, key, schema) ==
    LET with_id ==
            IF get_schema_id(schema) # None
            THEN LookupInsert(ref_lookup, get_schema_id(schema)[1], key)
            ELSE ref_lookup
        with_root_id ==
            IF get_schema_id(root.schema) # None
            THEN LookupInsert(
                     LookupInsert(with_id,
                         get_schema_id(root.schema)[1] \o "#/definitions/" \o key, key),
                     get_schema_id(root.schema)[1] \o "#/$defs/" \o key, key)
            ELSE with_id
    IN  LookupInsert(LookupInsert(with_root_id, "#/definitions/" \o key, key),
                     "#/$defs/" \o key, key)

RECURSIVE for_schema_from(_, _, _)
for_schema_from(ref_lookup, root, i) ==
    IF i > Len(root.definitions) THEN ref_lookup
    ELSE for_schema_from(
             for_schema_entry(ref_lookup, root, root.definitions[i].k, root.definitions[i].v),
             root, i + 1)

for_schema(root) == [ref_lookup |-> for_schema_from({}, root, 1)]

resolve(self, root, reference) ==
    LET key == LookupGet(self.ref_lookup, reference)
    IN  IF key = None THEN None ELSE MapGet(root.definitions, key[1])

(***************************************************************************)
(* Bounds and the inputs drawn within them.                                *)
(***************************************************************************)
MaxNum == 2      \* minimum/maximum and length values range over 1..MaxNum
MaxAnyOf == 2    \* an anyOf list has at most MaxAnyOf branches
MaxTuple == 2    \* a tuple-form items list has at most MaxTuple elements
MaxDepth == 3    \* a path has at most MaxDepth segments

Nums == 1..MaxNum

SeqsUpTo(S, n) == UNION {[1..k -> S] : k \in 1..n}

Pairs(S) == S \X S

NoDefinitions(schemas) == {Root(schema, <<>>) : schema \in schemas}

Scalars ==
    {Ty("String"), Ty("Number"), Ty("Integer")}
    \cup {WithMin(Ty("Integer"), v) : v \in Nums}

Leaves ==
    Scalars
    \cup {SchemaObjectDefault,
          AnyOf(<<SchemaBool(TRUE)>>), AnyOf(<<SchemaBool(FALSE)>>),
          WithConst(SchemaObjectDefault, JsonString("x")),
          WithConst(SchemaObjectDefault, JsonNumber("1")),
          WithConst(SchemaObjectDefault,
                    JsonObject(<<Entry("a", JsonString("x"))>>)),
          WithConst(SchemaObjectDefault,
                    JsonObject(<<Entry("a", JsonString("y"))>>)),
          WithMax(WithMin(Ty("Number"), 1), MaxNum)}

Branches == {Ty("String"), Ty("Integer"), WithMin(Ty("Integer"), MaxNum)}

AnyOfSchemas ==
    {AnyOf(l) : l \in SeqsUpTo(Branches, MaxAnyOf)}
    \cup {TyVec(<<"Integer", "String">>), TyVec(<<"String">>),
          WithMin(TyVec(<<"Integer", "String">>), 1),
          Ty("String"), WithMin(Ty("Integer"), 1)}

PropertyMaps ==
    {<<>>,
     <<Entry("a", Ty("String"))>>,
     <<Entry("a", Ty("Integer"))>>,
     <<Entry("a", AnyOf(<<Ty("String")>>)), Entry("b", SchemaBool(TRUE))>>,
     <<Entry("a", AnyOf(<<WithMin(Ty("Integer"), 1)>>))>>}

AdditionalSchemas ==
    {SchemaBool(TRUE), SchemaBool(FALSE), SchemaObjectDefault, Ty("String")}

ObjectSchemas ==
    {WithProps(Ty("Object"), props) : props \in PropertyMaps}
    \cup {WithAdditional(WithProps(Ty("Object"), props), additional) :
            props \in PropertyMaps, additional \in AdditionalSchemas}
    \cup {WithRequired(SchemaObjectDefault, names) : names \in SUBSET {"a", "b"}}

Items == {Ty("String"), Ty("Integer")}

ArraySchemas ==
    {Ty("Array")}
    \cup {WithItem(Ty("Array"), item) : item \in Items}
    \cup {WithTuple(Ty("Array"), items) : items \in SeqsUpTo(Items, MaxTuple)}

References ==
    {"#/definitions/A", "#/$defs/A", "#/definitions/Z", "idA", "R#/definitions/A"}

DefinitionTables ==
    {<<>>,
     <<Entry("A", Ty("Object"))>>,
     <<Entry("A", WithId(Ty("Array"), "idA"))>>,
     <<Entry("A", Ref("#/definitions/B")), Entry("B", Ty("Object"))>>}

ReferenceRoots ==
    {Root(schema, definitions) :
        schema \in {Ref(reference) : reference \in References}
                   \cup {WithId(Ref("R#/definitions/A"), "R"),
                         Ty("Object"),
                         WithTuple(Ty("Array"), <<Ty("String"), Ref("#/definitions/A")>>)},
        definitions \in DefinitionTables}

Core == {SchemaObjectDefault, Ty("String")}

Composites == AnyOfSchemas \cup ObjectSchemas \cup ArraySchemas

\* A primitive const and the type list holding its JSON kind (lib.rs:118-144).
ConstSchemas ==
    {WithConst(SchemaObjectDefault, JsonString("x")),
     WithConst(SchemaObjectDefault, JsonNumber("1"))}

KindLists == {TyVec(<<"String">>), TyVec(<<"Number">>)}

\* An optional bound: absent, or one of the values.
Optional(S) == {None} \cup {Some(v) : v \in S}

\* Numbers under the inclusive bounds and numbers under the exclusive ones.
RangeSchemas ==
    {[Ty("Number") EXCEPT !.number.minimum = lo, !.number.maximum = hi] :
        lo \in Optional(Nums), hi \in Optional(Nums)}
    \cup {[Ty("Number") EXCEPT !.number.exclusive_minimum = lo,
                               !.number.exclusive_maximum = hi] :
        lo \in Optional(Nums), hi \in Optional(Nums)}

\* An integer under optional bounds, bare and as the sole branch of an anyOf
\* (lib.rs:932-947, 1068-1083).
BoundedIntegers ==
    {[Ty("Integer") EXCEPT !.number.minimum = lo, !.number.maximum = hi] :
        lo \in Optional(Nums), hi \in Optional(Nums)}

SoleBranchSchemas == BoundedIntegers \cup {AnyOf(<<S>>) : S \in BoundedIntegers}

\* Strings under one of format, pattern, minLength, maxLength.
StringSchemas ==
    {Ty("String")}
    \cup {WithFormat(Ty("String"), name) : name \in {"a", "b"}}
    \cup {WithPattern(Ty("String"), regex) : regex \in {"a", "b"}}
    \cup {WithMinLength(Ty("String"), v) : v \in Nums}
    \cup {WithMaxLength(Ty("String"), v) : v \in Nums}

\* The pairs (lhs, rhs) of root schemas handed to diff.
Inputs ==
    Pairs(NoDefinitions(Leaves))
    \cup Pairs(NoDefinitions(StringSchemas))
    \cup Pairs(NoDefinitions(SoleBranchSchemas))
    \cup Pairs(NoDefinitions(RangeSchemas))
    \cup (NoDefinitions(ConstSchemas) \X NoDefinitions(KindLists))
    \cup (NoDefinitions(KindLists) \X NoDefinitions(ConstSchemas))
    \cup Pairs(NoDefinitions(AnyOfSchemas))
    \cup Pairs(NoDefinitions(ObjectSchemas))
    \cup Pairs(NoDefinitions(ArraySchemas))
    \cup Pairs(ReferenceRoots)
    \cup (NoDefinitions(Core) \X NoDefinitions(Composites))
    \cup (NoDefinitions(Composites) \X NoDefinitions(Core))

\* Branches that diff_score cannot tell apart although they differ.
TieBranches ==
    {WithItem(Ty("Array"), Ty("String")),
     WithItem(Ty("Array"), Ty("Number")),
     WithMin(WithItem(Ty("Array"), Ty("Number")), 1)}

TieSchemas == {AnyOf(l) : l \in SeqsUpTo(TieBranches, MaxAnyOf)}

Nested ==
    {WithProps(Ty("Object"), <<Entry("a", inner)>>) :
        inner \in AnyOfSchemas \cup ArraySchemas \cup TieSchemas}
    \cup {AnyOf(<<inner, Ty("String")>>) : inner \in ObjectSchemas \cup ArraySchemas}
    \cup {WithItem(Ty("Array"), inner) : inner \in AnyOfSchemas \cup TieSchemas}

\* The root schemas diff is handed as both lhs and rhs.
SameInputs ==
    NoDefinitions(Leaves \cup Composites \cup TieSchemas \cup Nested
                  \cup {AnyOf(<<>>)})
    \cup ReferenceRoots

NoChangeKind == [kind |-> "none"]

WalkerInit(lhs, rhs) ==
    /\ lhs_value = lhs
    /\ rhs_value = rhs
    /\ walker = NewWalker(lhs, rhs)
    /\ stack = <<>>
    /\ result = NoResult
    /\ returned = <<>>
    /\ change_kind = NoChangeKind
    /\ breaking = None
    /\ resolver_root = Root(SchemaObjectDefault, <<>>)
    /\ resolver = None
    /\ resolved = None

Init == \E input \in Inputs : WalkerInit(input[1], input[2])

Next == Walk

Spec == Init /\ [][Next]_vars

InitSame == \E root \in SameInputs : WalkerInit(root, root)

SpecSame == InitSame /\ [][Next]_vars

(***************************************************************************)
(* diff on nodes that carry a const: primitive and object-valued consts,   *)
(* a const next to other keywords, the same keywords without a const, and  *)
(* type lists that split_types rewrites.                                   *)
(***************************************************************************)
ConstValues ==
    {JsonString("x"), JsonString("y"), JsonNumber("1"),
     JsonObject(<<Entry("a", JsonString("x"))>>),
     JsonObject(<<Entry("a", JsonString("y")), Entry("b", JsonNumber("1"))>>),
     JsonObject(<<Entry("a", JsonObject(<<Entry("b", JsonString("x"))>>))>>)}

KeywordNodes ==
    {SchemaObjectDefault,
     WithMin(SchemaObjectDefault, 1),
     WithMax(SchemaObjectDefault, 1),
     WithRequired(SchemaObjectDefault, {"a"}),
     WithItem(SchemaObjectDefault, Ty("String")),
     WithProps(SchemaObjectDefault, <<Entry("b", Ty("String"))>>),
     TyVec(<<"Number", "String">>),
     WithMin(TyVec(<<"Number", "String">>), 1)}

\* Type lists on a node that carries every facet block.
SplitNodes ==
    {WithRequired(WithMin(WithMaxLength(WithItem(TyVec(kinds), Ty("String")), 1), 1),
                  {"a"}) :
        kinds \in {<<"Object", "Array">>, <<"String", "Boolean">>,
                   <<"Null", "Integer", "Number">>}}

ConstNodes ==
    KeywordNodes
    \cup {WithConst(SchemaObjectDefault, value) : value \in ConstValues}
    \cup {WithConst(node, JsonNumber("1")) : node \in KeywordNodes}
    \cup {WithConst(TyVec(<<"Number", "String">>),
                    JsonObject(<<Entry("a", JsonString("x"))>>))}
    \cup SplitNodes

InitConst ==
    \E input \in Pairs(NoDefinitions(ConstNodes)) : WalkerInit(input[1], input[2])

SpecConst == InitConst /\ [][Next]_vars

(***************************************************************************)
(* diff on nodes that reach each arm of effective_type: a type, a const of *)
(* every JSON kind, properties, anyOf, not, $ref, and several of them at   *)
(* once.                                                                   *)
(***************************************************************************)
JsonBool(text) == [t |-> "Bool", s |-> text, o |-> <<>>]
JsonNull == [t |-> "Null", s |-> "null", o |-> <<>>]
JsonArray(text) == [t |-> "Array", s |-> text, o |-> <<>>]
WithNot(s, schema) == [s EXCEPT !.subschemas.not = Some(schema)]
WithAnyOf(s, schemas) == [s EXCEPT !.subschemas.any_of = Some(schemas)]

TypeNodes ==
    {Ty(k) : k \in RangeOf(JsonSchemaType)}
    \cup {WithConst(SchemaObjectDefault, value) :
            value \in {JsonString("x"), JsonNumber("1"), JsonBool("true"), JsonNull,
                       JsonArray("[1]"), JsonObject(<<>>)}}
    \cup {SchemaObjectDefault,
          TyVec(<<"Number", "Null">>),
          WithConst(Ty("String"), JsonNumber("1")),
          WithConst(WithProps(SchemaObjectDefault, <<Entry("a", Ty("String"))>>),
                    JsonNull),
          WithProps(SchemaObjectDefault, <<Entry("a", Ty("Number"))>>),
          WithAnyOf(WithProps(SchemaObjectDefault, <<Entry("a", Ty("String"))>>),
                    <<Ty("Null")>>),
          AnyOf(<<>>),
          AnyOf(<<Ty("Number"), Ty("Null")>>),
          AnyOf(<<SchemaBool(FALSE), Ty("Boolean")>>),
          AnyOf(<<Ref("#/definitions/A")>>),
          WithNot(AnyOf(<<Ty("Array")>>), SchemaBool(TRUE)),
          WithNot(SchemaObjectDefault, SchemaBool(TRUE)),
          WithNot(SchemaObjectDefault, Ty("String")),
          Ref("#/definitions/A"),
          Ref("#/definitions/Z")}

TypeRoots ==
    {Root(schema, <<Entry("A", Ty("String"))>>) : schema \in TypeNodes}

InitTypes == \E input \in Pairs(TypeRoots) : WalkerInit(input[1], input[2])

SpecTypes == InitTypes /\ [][Next]_vars

(***************************************************************************)
(* diff run to its return on roots whose definitions refer to one another  *)
(* without a cycle, with every kind of descent below the root.  The walker *)
(* is a sequential program: a step that can be taken is taken.             *)
(***************************************************************************)
AcyclicDefinitions ==
    <<Entry("A", WithProps(Ty("Object"), <<Entry("a", Ref("#/definitions/B"))>>)),
      Entry("B", WithItem(Ty("Array"), Ty("String"))),
      Entry("C", Ref("#/definitions/A"))>>

DescentNodes ==
    {Ref("#/definitions/A"),
     Ref("#/definitions/C"),
     AnyOf(<<Ref("#/definitions/A"), TyVec(<<"Number", "String">>)>>),
     AnyOf(<<WithItem(Ty("Array"), Ref("#/definitions/B"))>>),
     WithAdditional(WithProps(Ty("Object"), <<Entry("a", Ref("#/definitions/A"))>>),
                    Ref("#/definitions/B")),
     WithTuple(Ty("Array"), <<Ref("#/definitions/A"), Ref("#/definitions/B")>>),
     WithItem(Ty("Array"), WithItem(Ty("Array"), Ty("Number"))),
     WithConst(SchemaObjectDefault,
               JsonObject(<<Entry("a", JsonObject(<<Entry("a", JsonString("x"))>>))>>)),
     WithProps(TyVec(<<"Object", "Null">>), <<Entry("a", Ref("#/definitions/B"))>>)}

DescentRoots ==
    {Root(schema, definitions) :
        schema \in DescentNodes, definitions \in {<<>>, AcyclicDefinitions}}

InitDescent == \E input \in Pairs(DescentRoots) : WalkerInit(input[1], input[2])

SpecDescent == InitDescent /\ [][Next]_vars /\ WF_vars(Next)

(***************************************************************************)
(* Calling diff a second time on equal inputs (lib.rs:16-25 builds a new   *)
(* walker); the caller keeps what the first call returned.                 *)
(***************************************************************************)
diff_again ==
    /\ result.status = "Ok"
    /\ returned = <<>>
    /\ returned' = <<result.changes>>
    /\ walker' = NewWalker(lhs_value, rhs_value)
    /\ stack' = <<>>
    /\ result' = NoResult
    /\ UNCHANGED <<lhs_value, rhs_value>>
    /\ WalkerVarsOnly

TieInputs == Pairs(NoDefinitions(TieSchemas)) \cup Pairs(NoDefinitions(AnyOfSchemas))

InitTwice == \E input \in TieInputs : WalkerInit(input[1], input[2])

NextTwice == Walk \/ diff_again

SpecTwice == InitTwice /\ [][NextTwice]_vars

(***************************************************************************)
(* is_breaking applied to a change kind.                                   *)
(***************************************************************************)
RangeKinds == {"Minimum", "Maximum", "ExclusiveMinimum", "ExclusiveMaximum"}

Ranges == {RangeValue(bound, value) : bound \in RangeKinds, value \in 0..MaxNum}

Names == {"a", "b"}

\* Grouped by the type of their payload.
NamedChangeKinds ==
    {[kind |-> "TypeAdd", added |-> JsonSchemaType[i]] : i \in 1..7}
    \cup {[kind |-> "TypeRemove", removed |-> JsonSchemaType[i]] : i \in 1..7}
    \cup {[kind |-> "PropertyAdd", lhs_additional_properties |-> b, added |-> n] :
            b \in BOOLEAN, n \in Names}
    \cup {[kind |-> "PropertyRemove", lhs_additional_properties |-> b, removed |-> n] :
            b \in BOOLEAN, n \in Names}
    \cup {[kind |-> "RequiredRemove", property |-> n] : n \in Names}
    \cup {[kind |-> "RequiredAdd", property |-> n] : n \in Names}
    \cup {[kind |-> "FormatAdd", added |-> n] : n \in Names}
    \cup {[kind |-> "FormatRemove", removed |-> n] : n \in Names}
    \cup {[kind |-> "FormatChange", old_format |-> o, new_format |-> n] :
            o \in Names, n \in Names}
    \cup {[kind |-> "PatternAdd", added |-> n] : n \in Names}
    \cup {[kind |-> "PatternRemove", removed |-> n] : n \in Names}
    \cup {[kind |-> "PatternChange", old_pattern |-> o, new_pattern |-> n] :
            o \in Names, n \in Names}

ConstChangeKinds ==
    {[kind |-> "ConstAdd", added |-> v] :
        v \in {JsonString("x"), JsonNumber("1")}}
    \cup {[kind |-> "ConstRemove", removed |-> v] :
        v \in {JsonString("x"), JsonNumber("1")}}

RangeChangeKinds ==
    {[kind |-> "RangeAdd", added |-> r] : r \in Ranges}
    \cup {[kind |-> "RangeRemove", removed |-> r] : r \in Ranges}
    \cup {[kind |-> "RangeChange", old_value |-> o, new_value |-> n] :
            o \in Ranges, n \in Ranges}

LengthChangeKinds ==
    {[kind |-> "TupleToArray", old_length |-> n] : n \in 0..MaxTuple}
    \cup {[kind |-> "ArrayToTuple", new_length |-> n] : n \in 0..MaxTuple}
    \cup {[kind |-> "TupleChange", new_length |-> n] : n \in 0..MaxTuple}
    \cup {[kind |-> "MinLengthAdd", added |-> n] : n \in 0..MaxNum}
    \cup {[kind |-> "MinLengthRemove", removed |-> n] : n \in 0..MaxNum}
    \cup {[kind |-> "MinLengthChange", old_value |-> o, new_value |-> n] :
            o \in 0..MaxNum, n \in 0..MaxNum}
    \cup {[kind |-> "MaxLengthAdd", added |-> n] : n \in 0..MaxNum}
    \cup {[kind |-> "MaxLengthRemove", removed |-> n] : n \in 0..MaxNum}
    \cup {[kind |-> "MaxLengthChange", old_value |-> o, new_value |-> n] :
            o \in 0..MaxNum, n \in 0..MaxNum}

IdleWalker ==
    /\ lhs_value = Root(SchemaObjectDefault, <<>>)
    /\ rhs_value = Root(SchemaObjectDefault, <<>>)
    /\ walker = NewWalker(lhs_value, rhs_value)
    /\ stack = <<>>
    /\ result = NoResult
    /\ returned = <<>>

WalkerIdle == UNCHANGED <<lhs_value, rhs_value, walker, stack, result, returned>>

InitBreaking ==
    /\ IdleWalker
    /\ \/ change_kind \in NamedChangeKinds
       \/ change_kind \in ConstChangeKinds
       \/ change_kind \in RangeChangeKinds
       \/ change_kind \in LengthChangeKinds
    /\ breaking = None
    /\ resolver_root = Root(SchemaObjectDefault, <<>>)
    /\ resolver = None
    /\ resolved = None

call_is_breaking ==
    /\ change_kind # NoChangeKind
    /\ breaking = None
    /\ breaking' = Some(is_breaking(change_kind))
    /\ UNCHANGED <<change_kind, resolver_root, resolver, resolved>>
    /\ WalkerIdle

NextBreaking == call_is_breaking

SpecBreaking == InitBreaking /\ [][NextBreaking]_vars

(***************************************************************************)
(* A Resolver built for a root and asked to resolve references.            *)
(***************************************************************************)
DefinitionIds == {"idA", "idB", "#/definitions/A", "#/$defs/B"}

DefinitionBodies ==
    {Ty("Object"), Ty("String"), SchemaBool(TRUE)}
    \cup {WithId(Ty("Array"), id) : id \in DefinitionIds}

ResolverTables ==
    {<<>>}
    \cup {<<Entry("A", a)>> : a \in DefinitionBodies}
    \cup {<<Entry("A", a), Entry("B", b)>> : a \in DefinitionBodies, b \in DefinitionBodies}

ResolverRoots ==
    {Root(schema, definitions) :
        schema \in {SchemaObjectDefault, WithId(SchemaObjectDefault, "R")},
        definitions \in ResolverTables}

ResolverReferences ==
    DefinitionIds
    \cup {prefix \o pointer \o key :
            prefix \in {"", "R"}, pointer \in {"#/definitions/", "#/$defs/"},
            key \in {"A", "B", "Z"}}

InitResolver ==
    /\ IdleWalker
    /\ change_kind = NoChangeKind
    /\ breaking = None
    /\ resolver_root \in ResolverRoots
    /\ resolver = None
    /\ resolved = None

call_for_schema ==
    /\ resolver = None
    /\ resolver' = Some(for_schema(resolver_root))
    /\ UNCHANGED <<change_kind, breaking, resolver_root, resolved>>
    /\ WalkerIdle

call_resolve ==
    /\ resolver # None
    /\ \E reference \in ResolverReferences :
        resolved' = Some([reference |-> reference,
                          schema |-> resolve(resolver[1], resolver_root, reference)])
    /\ UNCHANGED <<change_kind, breaking, resolver_root, resolver>>
    /\ WalkerIdle

NextResolver == call_for_schema \/ call_resolve

SpecResolver == InitResolver /\ [][NextResolver]_vars

(***************************************************************************)
(* Properties.                                                             *)
(***************************************************************************)

\* C1: reflexivity: when diff is given the same root schema as lhs and as
\* rhs (anyOf lists, type lists, const values and $ref into definitions
\* included), the change list it returns is empty.
C1_Reflexivity ==
    (result.status = "Ok" /\ lhs_value = rhs_value) => result.changes = <<>>

\* diff returned for a root whose anyOf holds two distinct branches that
\* diff_score cannot tell apart.
C1_Witness ==
    /\ result.status = "Ok"
    /\ lhs_value = rhs_value
    /\ lhs_value.schema \in TieSchemas
    /\ Len(lhs_value.schema.subschemas.any_of[1]) >= 2
    /\ lhs_value.schema.subschemas.any_of[1][1] # lhs_value.schema.subschemas.any_of[1][2]

\* The table of is_breaking for the kinds whose answer needs no comparison
\* of range bounds.
BreakingTable(c) ==
    CASE c.kind = "TypeAdd" -> FALSE
      [] c.kind = "TypeRemove" -> TRUE
      [] c.kind = "ConstAdd" -> TRUE
      [] c.kind = "ConstRemove" -> FALSE
      [] c.kind = "PropertyAdd" -> c.lhs_additional_properties
      [] c.kind = "PropertyRemove" -> ~c.lhs_additional_properties
      [] c.kind = "RangeAdd" -> TRUE
      [] c.kind = "RangeRemove" -> FALSE
      [] c.kind = "TupleToArray" -> FALSE
      [] c.kind = "ArrayToTuple" -> TRUE
      [] c.kind = "TupleChange" -> TRUE
      [] c.kind = "RequiredAdd" -> TRUE
      [] c.kind = "RequiredRemove" -> FALSE
      [] c.kind \in {"FormatAdd", "FormatChange"} -> TRUE
      [] c.kind = "FormatRemove" -> FALSE
      [] c.kind \in {"PatternAdd", "PatternChange"} -> TRUE
      [] c.kind = "PatternRemove" -> FALSE
      [] c.kind \in {"MinLengthAdd", "MaxLengthAdd"} -> TRUE
      [] c.kind \in {"MinLengthRemove", "MaxLengthRemove"} -> FALSE
      [] c.kind = "MinLengthChange" -> c.new_value > c.old_value
      [] c.kind = "MaxLengthChange" -> c.new_value < c.old_value

\* C3: for every change kind other than RangeChange, is_breaking answers
\* what the table says: Add/Remove kinds by their fixed entry, PropertyAdd
\* by lhs_additional_properties, PropertyRemove by its negation,
\* MinLengthChange iff new > old, MaxLengthChange iff new < old.
C3_BreakingTable ==
    (breaking # None /\ change_kind.kind # "RangeChange")
        => breaking[1] = BreakingTable(change_kind)

\* is_breaking answered true for a PropertyAdd under open additionalProperties.
C3_Witness ==
    /\ breaking = Some(TRUE)
    /\ change_kind.kind = "PropertyAdd"
    /\ change_kind.lhs_additional_properties

\* C4: RangeChange.is_breaking for every pair of bounds: the same bound kind
\* is breaking iff the new value is stricter (new > old for the minimum
\* kinds, new < old for the maximum kinds); inclusive to exclusive on the
\* same side is always breaking; ExclusiveMinimum(e) to Minimum(m) is
\* non-breaking iff e >= m, ExclusiveMaximum(e) to Maximum(m) iff e <= m;
\* every other combination is breaking.
C4_RangeChangeBreaking ==
    (breaking # None /\ change_kind.kind = "RangeChange") =>
        LET old == change_kind.old_value
            new == change_kind.new_value
        IN  breaking[1] =
              (CASE old.bound = new.bound /\ old.bound \in {"Minimum", "ExclusiveMinimum"}
                        -> new.value > old.value
                 [] old.bound = new.bound /\ old.bound \in {"Maximum", "ExclusiveMaximum"}
                        -> new.value < old.value
                 [] old.bound = "Minimum" /\ new.bound = "ExclusiveMinimum" -> TRUE
                 [] old.bound = "Maximum" /\ new.bound = "ExclusiveMaximum" -> TRUE
                 [] old.bound = "ExclusiveMinimum" /\ new.bound = "Minimum"
                        -> ~(old.value >= new.value)
                 [] old.bound = "ExclusiveMaximum" /\ new.bound = "Maximum"
                        -> ~(old.value <= new.value)
                 [] OTHER -> TRUE)

\* is_breaking answered true for Minimum -> ExclusiveMinimum with a lower value.
C4_Witness ==
    /\ breaking = Some(TRUE)
    /\ change_kind.kind = "RangeChange"
    /\ change_kind.old_value.bound = "Minimum"
    /\ change_kind.new_value.bound = "ExclusiveMinimum"
    /\ change_kind.new_value.value < change_kind.old_value.value

(***************************************************************************)
(* The records one step of the walker appended to the change list.         *)
(***************************************************************************)
Emitted == SubSeq(walker'.changes, Len(walker.changes) + 1, Len(walker'.changes))

EmittedKinds(kind) ==
    {i \in 1..Len(Emitted) : Emitted[i].change.kind = kind}

\* The kinds a type stands for: Number stands for Number and Integer, a
\* schema without a type for all seven kinds, a false schema for none.
KindsOf(ty) ==
    CASE ty.tag = "Any" -> {JsonSchemaType[i] : i \in 1..7}
      [] ty.tag = "Never" -> {}
      [] OTHER -> UNION {IF ty.tys[i] = "Number" THEN {"Number", "Integer"}
                                                 ELSE {ty.tys[i]} : i \in 1..Len(ty.tys)}

\* What the type statement has to emit for the pair of nodes on top of the
\* stack: at the node's path, one TypeRemove per kind of LHS \ RHS and one
\* TypeAdd per kind of RHS \ LHS, and nothing else.
TypeRecordsAreSetDifferences ==
    LET lhs_ty == KindsOf(effective_type(Top.lhs))
        rhs_ty == KindsOf(effective_type(Top.rhs))
    IN  /\ \A i \in 1..Len(Emitted) :
              /\ Emitted[i].path = Top.json_path
              /\ Emitted[i].change.kind \in {"TypeRemove", "TypeAdd"}
        /\ {Emitted[i].change.removed : i \in EmittedKinds("TypeRemove")} = lhs_ty \ rhs_ty
        /\ {Emitted[i].change.added : i \in EmittedKinds("TypeAdd")} = rhs_ty \ lhs_ty
        /\ Len(Emitted) = Cardinality(lhs_ty \ rhs_ty) + Cardinality(rhs_ty \ lhs_ty)

\* C2 as stated: for every pair of nodes the walker compares, the type
\* records emitted at the pair's path are exactly the two set differences of
\* the effective types.
C2_EveryComparedPair ==
    [][AtStatement("diff_instance_types") => TypeRecordsAreSetDifferences]_vars

\* C2: for every pair of nodes the walker compares outside an anyOf
\* alignment, the TypeRemove records emitted at the pair's path are exactly
\* the kinds of LHS minus RHS and the TypeAdd records exactly the kinds of RHS
\* minus LHS, Number standing for Number and Integer; for a pair of aligned
\* anyOf branches no type record is emitted.
C2_TypeRecords ==
    [][AtStatement("diff_instance_types") =>
            IF Top.comparing_any_of
            THEN Emitted = <<>>
            ELSE TypeRecordsAreSetDifferences]_vars

\* The type statement ran on integer -> number and emitted only TypeAdd Number.
C2_Witness ==
    /\ AtStatement("diff_const")
    /\ ~Top.comparing_any_of
    /\ Top.lhs = Ty("Integer")
    /\ Top.rhs = Ty("Number")
    /\ walker.changes = <<Change(Top.json_path, [kind |-> "TypeAdd", added |-> "Number"])>>

(***************************************************************************)
(* The grammar of paths.                                                   *)
(***************************************************************************)
Segments ==
    {"." \o NameOrder[i] : i \in 1..Len(NameOrder)}
    \cup {"." \o ToString(i) : i \in 0..(MaxTuple + MaxAnyOf)}
    \cup {".?", ".<additionalProperties>"}
    \cup {".<anyOf:" \o ToString(j) \o ">" : j \in 0..(MaxTuple + MaxAnyOf)}

RECURSIVE PathsUpTo(_)
PathsUpTo(depth) ==
    IF depth = 0 THEN {""}
    ELSE LET shorter == PathsUpTo(depth - 1)
         IN  shorter \cup {path \o segment : path \in shorter, segment \in Segments}

Paths == PathsUpTo(MaxDepth)

ExtendsByAtMostOneSegment(parent, child) ==
    child = parent \/ \E segment \in Segments : child = parent \o segment

\* C5: the path of every emitted change is the empty string or a
\* concatenation of segments .<property name>, .<tuple index>, .?,
\* .<additionalProperties> or .<anyOf:j>; the outermost call has the empty
\* path and every child call, made or about to be made, has its parent
\* call's path extended by zero or one segment.
C5_PathGrammar ==
    /\ \A i \in 1..Len(walker.changes) : walker.changes[i].path \in Paths
    /\ \A k \in 1..Len(stack) :
          /\ k = 1 => stack[k].json_path = ""
          /\ k > 1 => ExtendsByAtMostOneSegment(stack[k - 1].json_path, stack[k].json_path)
          /\ \A c \in 1..Len(stack[k].calls) :
                ExtendsByAtMostOneSegment(stack[k].json_path, stack[k].calls[c].json_path)

\* diff returned a change located two segments deep, at an anyOf branch of
\* a property.
C5_Witness ==
    /\ result.status = "Ok"
    /\ \E i \in 1..Len(result.changes) : result.changes[i].path = ".a.<anyOf:0>"

\* C6: diff called twice on equal inputs returns the same number of
\* changes, whichever of the minimum-cost assignments each call's anyOf
\* alignment picked.
C6_SameCount ==
    (result.status = "Ok" /\ returned # <<>>)
        => Len(result.changes) = Len(returned[1])

\* C7: a diff never mutates the schemas it was given: whatever step the
\* walker takes (reference substitution, type splitting, anyOf padding, const
\* normalization), lhs_root and rhs_root with their definition tables stay
\* what diff was called with, and the nodes held by the calls below the
\* running one stay what they were: rewrites touch the running call's clones.
C7_RootsNotMutated ==
    [][/\ walker'.lhs_root = lhs_value
       /\ walker'.rhs_root = rhs_value
       /\ \A k \in 1..(Len(stack) - 1) :
             k <= Len(stack') =>
                /\ stack'[k].lhs = stack[k].lhs
                /\ stack'[k].rhs = stack[k].rhs]_vars

\* The outermost call replaced its $ref node by the definition and is about
\* to return.
C7_Witness ==
    /\ Len(stack) = 1
    /\ AtStatement("return")
    /\ lhs_value.schema.reference # None
    /\ Top.lhs # lhs_value.schema
    /\ Top.lhs.reference = None

(***************************************************************************)
(* The reference strings that name definition i of a root: the two         *)
(* pointers, the two pointers behind the root's $id, the definition's $id. *)
(***************************************************************************)
ReferenceForms(root, i) ==
    LET key == root.definitions[i].k
        pointers == {"#/definitions/" \o key, "#/$defs/" \o key}
    IN  pointers
        \cup (IF get_schema_id(root.schema) # None
              THEN {get_schema_id(root.schema)[1] \o pointer : pointer \in pointers}
              ELSE {})
        \cup (IF get_schema_id(root.definitions[i].v) # None
              THEN {get_schema_id(root.definitions[i].v)[1]}
              ELSE {})

NamesNoDefinition(root, reference) ==
    \A i \in 1..Len(root.definitions) : reference \notin ReferenceForms(root, i)

\* C8: an unresolvable $ref is not an error: diff never returns an error,
\* and when the $ref of a node names no definition of its own root, the
\* reference step leaves that node as it is and the same call goes on to its
\* next statement.
C8_UnresolvableRef ==
    [][/\ result'.status # "Err"
       /\ AtStatement("resolve_references") =>
            /\ Len(stack') = Len(stack)
            /\ stack'[Len(stack)].pc = "split_types"
            /\ (Top.lhs.reference # None
                    /\ NamesNoDefinition(walker.lhs_root, Top.lhs.reference[1]))
                 => stack'[Len(stack)].lhs = Top.lhs
            /\ (Top.rhs.reference # None
                    /\ NamesNoDefinition(walker.rhs_root, Top.rhs.reference[1]))
                 => stack'[Len(stack)].rhs = Top.rhs]_vars

\* diff returned the changes of a $ref naming no definition against an object.
C8_Witness ==
    /\ result.status = "Ok"
    /\ lhs_value.schema.reference = Some("#/definitions/Z")
    /\ lhs_value.definitions # <<>>
    /\ rhs_value.schema = Ty("Object")
    /\ Len(result.changes) = 6

\* C9: what resolve answers on a Resolver built by for_schema(root): for a
\* reference that is one of the four pointers of definition k, definition k;
\* for the $id of definition k, what it answers for "#/definitions/k"; for a
\* reference naming no definition, none.  Every definition table is meant,
\* those where a definition's $id is another entry's pointer included.
C9_ResolverLookup ==
    resolved # None =>
        LET root == resolver_root
            reference == resolved[1].reference
            definition(i) == root.definitions[i]
        IN  /\ \A i \in 1..Len(root.definitions) :
                  /\ reference \in ReferenceForms(Root(root.schema, <<Entry(definition(i).k, SchemaObjectDefault)>>), 1)
                        => resolved[1].schema = Some(definition(i).v)
                  /\ get_schema_id(definition(i).v) = Some(reference)
                        => resolved[1].schema =
                            resolve(resolver[1], root, "#/definitions/" \o definition(i).k)
            /\ NamesNoDefinition(root, reference) => resolved[1].schema = None

\* C10: during a diff, a node whose $ref names an existing definition of its
\* own root, by one of the two pointers, by a pointer behind the root's $id
\* or by the definition's $id, is replaced by that definition in the
\* reference step: LHS nodes from the LHS root, RHS nodes from the RHS root.
C10_ReferenceForms ==
    [][AtStatement("resolve_references") =>
            /\ Top.lhs.reference # None =>
                 \A i \in 1..Len(walker.lhs_root.definitions) :
                    Top.lhs.reference[1] \in ReferenceForms(walker.lhs_root, i)
                        => stack'[Len(stack)].lhs
                            = into_object(walker.lhs_root.definitions[i].v)
            /\ Top.rhs.reference # None =>
                 \A i \in 1..Len(walker.rhs_root.definitions) :
                    Top.rhs.reference[1] \in ReferenceForms(walker.rhs_root, i)
                        => stack'[Len(stack)].rhs
                            = into_object(walker.rhs_root.definitions[i].v)]_vars

\* rhs is lhs with the branches of its anyOf reordered.
IsReordering(lhs, rhs) ==
    /\ lhs.subschemas.any_of # None
    /\ rhs.subschemas.any_of # None
    /\ rhs = [lhs EXCEPT !.subschemas.any_of = rhs.subschemas.any_of]
    /\ LET B == lhs.subschemas.any_of[1]
           reordered == rhs.subschemas.any_of[1]
       IN  /\ Len(B) = Len(reordered)
           /\ \E pi \in Assignments(Len(B)) :
                \A i \in 1..Len(B) : reordered[i] = B[pi[i]]

\* C11: reordering the branches of an anyOf is not a change: when rhs is
\* lhs with its anyOf list permuted, diff returns the empty list.
C11_ReorderIsNoChange ==
    (result.status = "Ok" /\ IsReordering(lhs_value.schema, rhs_value.schema))
        => result.changes = <<>>

\* schema is {const: v} for a primitive v and list is {type: [kind(v)]}.
IsConstAndItsKind(schema, list) ==
    /\ schema.const_value # None
    /\ schema.const_value[1].t # "Object"
    /\ schema = WithConst(SchemaObjectDefault, schema.const_value[1])
    /\ list = TyVec(<<serde_value_to_own(schema.const_value[1])>>)

\* C12: replacing a primitive const by the type list holding the JSON kind
\* of that const, and the reverse replacement, each yield an empty change
\* list.
C12_ConstToKindList ==
    (/\ result.status = "Ok"
     /\ \/ IsConstAndItsKind(lhs_value.schema, rhs_value.schema)
        \/ IsConstAndItsKind(rhs_value.schema, lhs_value.schema))
        => result.changes = <<>>

(***************************************************************************)
(* The three-case pattern of a facet that holds an optional value.         *)
(***************************************************************************)
BoundOf(change) ==
    CASE change.kind = "RangeAdd" -> change.added
      [] change.kind = "RangeRemove" -> change.removed
      [] change.kind = "RangeChange" -> change.changed
      [] OTHER -> "none"

EmittedFor(ranges) == SelectSeq(Emitted, LAMBDA c : BoundOf(c.change) \in ranges)

ExpectedRange(path, old, new, range) ==
    CASE old = None /\ new # None ->
            <<Change(path, [kind |-> "RangeAdd", added |-> range, value |-> new[1]])>>
      [] old # None /\ new = None ->
            <<Change(path, [kind |-> "RangeRemove", removed |-> range, value |-> old[1]])>>
      [] old # None /\ new # None /\ old[1] # new[1] ->
            <<Change(path, [kind |-> "RangeChange", changed |-> range,
                            old_value |-> old[1], new_value |-> new[1]])>>
      [] OTHER -> <<>>

\* C13: at a pair of nodes that was not type-split the range statement emits,
\* for each of minimum, maximum, exclusiveMinimum and exclusiveMaximum on its
\* own: nothing when the bound is absent on both sides or equal on both, one
\* RangeAdd when only RHS has it, one RangeRemove when only LHS has it, one
\* RangeChange with old and new value when the values differ; and nothing
\* else, the record of minimum before the record of maximum.
C13_RangeFacet ==
    [][AtStatement("diff_range") =>
        LET l == number_validation(Top.lhs)
            r == number_validation(Top.rhs)
            minimum == ExpectedRange(Top.json_path, l.minimum, r.minimum, "Minimum")
            maximum == ExpectedRange(Top.json_path, l.maximum, r.maximum, "Maximum")
            exclusive_minimum ==
                ExpectedRange(Top.json_path, l.exclusive_minimum, r.exclusive_minimum,
                              "ExclusiveMinimum")
            exclusive_maximum ==
                ExpectedRange(Top.json_path, l.exclusive_maximum, r.exclusive_maximum,
                              "ExclusiveMaximum")
        IN  /\ EmittedFor({"Minimum", "Maximum"}) = minimum \o maximum
            /\ EmittedFor({"ExclusiveMinimum"}) = exclusive_minimum
            /\ EmittedFor({"ExclusiveMaximum"}) = exclusive_maximum
            /\ Len(Emitted) = Len(minimum) + Len(maximum)
                                + Len(exclusive_minimum) + Len(exclusive_maximum)]_vars

\* The bounds the range facet compares for a node: its own, or when it has
\* none of its own and its anyOf has exactly one branch, that branch's.
ConsultedBounds(node) ==
    IF node.number # NumberValidationDefault THEN node.number
    ELSE IF node.subschemas.any_of # None /\ Len(node.subschemas.any_of[1]) = 1
         THEN into_object(node.subschemas.any_of[1][1]).number
         ELSE NumberValidationDefault

\* S is a type with optional minimum and maximum, and wrapped is anyOf: [S].
IsSoleBranchOf(S, wrapped) ==
    /\ S.instance_type.form = "Single"
    /\ S = [Ty(S.instance_type.tys[1]) EXCEPT !.number.minimum = S.number.minimum,
                                              !.number.maximum = S.number.maximum]
    /\ wrapped = AnyOf(<<S>>)

ReturnedKinds(kinds) ==
    LET records == SelectSeq(result.changes, LAMBDA c : c.change.kind \in kinds)
    IN  [i \in 1..Len(records) |-> records[i].change.kind]

ExpectedKinds(old, new, add, remove, change) ==
    CASE old = None /\ new # None -> <<add>>
      [] old # None /\ new = None -> <<remove>>
      [] old # None /\ new # None /\ old # new -> <<change>>
      [] OTHER -> <<>>

\* C15: for each of format, pattern, minLength and maxLength, diff of two
\* string schemas returns the keyword's Add record when only RHS has the
\* keyword, its Remove record when only LHS has it, its Change record when
\* both have it with different values, and no record of the keyword
\* otherwise.
C15_StringFacets ==
    (/\ result.status = "Ok"
     /\ lhs_value.schema.instance_type = Ty("String").instance_type
     /\ rhs_value.schema.instance_type = Ty("String").instance_type) =>
        LET lhs == lhs_value.schema
            rhs == rhs_value.schema
        IN  /\ ReturnedKinds({"FormatAdd", "FormatRemove", "FormatChange"})
                = ExpectedKinds(lhs.format, rhs.format,
                                "FormatAdd", "FormatRemove", "FormatChange")
            /\ ReturnedKinds({"PatternAdd", "PatternRemove", "PatternChange"})
                = ExpectedKinds(lhs.string.pattern, rhs.string.pattern,
                                "PatternAdd", "PatternRemove", "PatternChange")
            /\ ReturnedKinds({"MinLengthAdd", "MinLengthRemove", "MinLengthChange"})
                = ExpectedKinds(lhs.string.min_length, rhs.string.min_length,
                                "MinLengthAdd", "MinLengthRemove", "MinLengthChange")
            /\ ReturnedKinds({"MaxLengthAdd", "MaxLengthRemove", "MaxLengthChange"})
                = ExpectedKinds(lhs.string.max_length, rhs.string.max_length,
                                "MaxLengthAdd", "MaxLengthRemove", "MaxLengthChange")

\* additionalProperties is absent or is the open schema, true or {}.
IsOpen(additional_properties) ==
    \/ additional_properties = None
    \/ additional_properties[1] = SchemaBool(TRUE)
    \/ additional_properties[1] = SchemaObjectDefault

\* C16: at a pair of nodes the properties statement emits, at the node's
\* path, one PropertyRemove for every key only in LHS and one PropertyAdd for
\* every key only in RHS, each with lhs_additional_properties true exactly
\* when the LHS additionalProperties is absent or the open schema; for every
\* key on both sides it emits no record and makes one recursive call at path
\* parent + "." + key with the type facet enabled.
C16_PropertiesFacet ==
    [][AtStatement("diff_properties") =>
        LET lhs_keys == MapKeys(Top.lhs.object.properties)
            rhs_keys == MapKeys(Top.rhs.object.properties)
            calls == stack'[Len(stack)].calls
        IN  /\ \A i \in 1..Len(Emitted) :
                  /\ Emitted[i].path = Top.json_path
                  /\ Emitted[i].change.kind \in {"PropertyRemove", "PropertyAdd"}
                  /\ Emitted[i].change.lhs_additional_properties
                        = IsOpen(Top.lhs.object.additional_properties)
            /\ {Emitted[i].change.removed : i \in EmittedKinds("PropertyRemove")}
                    = lhs_keys \ rhs_keys
            /\ {Emitted[i].change.added : i \in EmittedKinds("PropertyAdd")}
                    = rhs_keys \ lhs_keys
            /\ Len(Emitted) = Cardinality(lhs_keys \ rhs_keys)
                                + Cardinality(rhs_keys \ lhs_keys)
            /\ Len(calls) = Cardinality(lhs_keys \cap rhs_keys)
            /\ \A key \in lhs_keys \cap rhs_keys :
                  \E c \in 1..Len(calls) :
                     /\ calls[c].json_path = Top.json_path \o "." \o key
                     /\ ~calls[c].comparing_any_of
                     /\ calls[c].lhs = into_object(MapGet(Top.lhs.object.properties, key)[1])
                     /\ calls[c].rhs = into_object(MapGet(Top.rhs.object.properties, key)[1])]_vars

\* The properties statement ran on a closed LHS object: it reported an added
\* key with lhs_additional_properties false and is about to descend into a
\* key both sides have.
C16_Witness ==
    /\ stack # <<>>
    /\ Top.pc = "diff_range"
    /\ Top.calls # <<>>
    /\ Top.lhs.object.additional_properties = Some(SchemaBool(FALSE))
    /\ walker.changes # <<>>
    /\ walker.changes[Len(walker.changes)].change.kind = "PropertyAdd"
    /\ ~walker.changes[Len(walker.changes)].change.lhs_additional_properties

\* One record of the given kind per kind of JsonSchemaType, in its order.
SevenTypeRecords(path, kind) ==
    [i \in 1..Len(JsonSchemaType) |->
        Change(path, IF kind = "TypeAdd"
                     THEN [kind |-> "TypeAdd", added |-> JsonSchemaType[i]]
                     ELSE [kind |-> "TypeRemove", removed |-> JsonSchemaType[i]])]

\* rhs is lhs with its additionalProperties, from, replaced by to.
SwitchesAdditional(lhs, rhs, from, to) ==
    /\ lhs.object.additional_properties = Some(SchemaBool(from))
    /\ rhs = WithAdditional(lhs, SchemaBool(to))

\* C17: the additionalProperties statement emits nothing itself and makes a
\* recursive call, at path parent + ".<additionalProperties>" with the type
\* facet enabled, exactly when both sides carry an additionalProperties and
\* the two differ; false -> true returns exactly the seven TypeAdd records at
\* that path in the order String, Number, Integer, Object, Array, Boolean,
\* Null, and true -> false the seven TypeRemove records in the same order.
C17_AdditionalPropertiesFacet ==
    [][/\ AtStatement("diff_additional_properties") =>
            LET l == Top.lhs.object.additional_properties
                r == Top.rhs.object.additional_properties
                calls == stack'[Len(stack)].calls
            IN  /\ Emitted = <<>>
                /\ IF l # None /\ r # None /\ l # r
                   THEN calls = <<Call(Top.json_path \o ".<additionalProperties>", FALSE,
                                       into_object(l[1]), into_object(r[1]))>>
                   ELSE calls = <<>>
       /\ (/\ result'.status = "Ok"
           /\ SwitchesAdditional(lhs_value.schema, rhs_value.schema, FALSE, TRUE))
            => result'.changes = SevenTypeRecords(".<additionalProperties>", "TypeAdd")
       /\ (/\ result'.status = "Ok"
           /\ SwitchesAdditional(lhs_value.schema, rhs_value.schema, TRUE, FALSE))
            => result'.changes = SevenTypeRecords(".<additionalProperties>", "TypeRemove")]_vars

\* diff returned the seven TypeAdd records of additionalProperties false -> true.
C17_Witness ==
    /\ result.status = "Ok"
    /\ SwitchesAdditional(lhs_value.schema, rhs_value.schema, FALSE, TRUE)
    /\ Len(result.changes) = 7
    /\ result.changes[7] = Change(".<additionalProperties>",
                                  [kind |-> "TypeAdd", added |-> "Null"])

\* The recursive call the items statement makes for one pair of elements.
ElementCall(path, index, lhs_element, rhs_element) ==
    [json_path |-> path \o "." \o ToString(index),
     comparing_any_of |-> FALSE,
     lhs |-> into_object(lhs_element),
     rhs |-> into_object(rhs_element)]

\* C18: what the items statement emits and which recursive calls it makes,
\* by the forms of the two sides: (tuple, tuple) TupleChange with the RHS
\* length iff the lengths differ, then one call per index below the shorter
\* length; (array, array) one call at .?; (array, tuple) ArrayToTuple with
\* the RHS length, then the LHS item against every RHS element; (tuple,
\* array) TupleToArray with the LHS length, then every LHS element against
\* the RHS item; (absent, absent) nothing.  The record is in the change list
\* before any of the calls is made.
C18_ItemsFacet ==
    [][AtStatement("diff_array_items") =>
        LET li == Top.lhs.array.items
            ri == Top.rhs.array.items
            path == Top.json_path
            calls == stack'[Len(stack)].calls
            shorter == IF Len(li.s) < Len(ri.s) THEN Len(li.s) ELSE Len(ri.s)
        IN  /\ (li.form = "Vec" /\ ri.form = "Vec") =>
                  /\ Emitted = IF Len(li.s) # Len(ri.s)
                               THEN <<Change(path, [kind |-> "TupleChange",
                                                    new_length |-> Len(ri.s)])>>
                               ELSE <<>>
                  /\ calls = [i \in 1..shorter |->
                                ElementCall(path, i - 1, li.s[i], ri.s[i])]
            /\ (li.form = "Single" /\ ri.form = "Single") =>
                  /\ Emitted = <<>>
                  /\ calls = <<[json_path |-> path \o ".?", comparing_any_of |-> FALSE,
                                lhs |-> into_object(li.s[1]),
                                rhs |-> into_object(ri.s[1])]>>
            /\ (li.form = "Single" /\ ri.form = "Vec") =>
                  /\ Emitted = <<Change(path, [kind |-> "ArrayToTuple",
                                               new_length |-> Len(ri.s)])>>
                  /\ calls = [i \in 1..Len(ri.s) |->
                                ElementCall(path, i - 1, li.s[1], ri.s[i])]
            /\ (li.form = "Vec" /\ ri.form = "Single") =>
                  /\ Emitted = <<Change(path, [kind |-> "TupleToArray",
                                               old_length |-> Len(li.s)])>>
                  /\ calls = [i \in 1..Len(li.s) |->
                                ElementCall(path, i - 1, li.s[i], ri.s[1])]
            /\ (li.form = "None" /\ ri.form = "None") =>
                  /\ Emitted = <<>>
                  /\ calls = <<>>]_vars

\* The items statement ran on a longer tuple against a shorter one: it
\* reported TupleChange with the RHS length and is about to descend into the
\* one index both have.
C18_Witness ==
    /\ stack # <<>>
    /\ Top.pc = "diff_required"
    /\ Top.lhs.array.items.form = "Vec"
    /\ Top.rhs.array.items.form = "Vec"
    /\ Len(Top.lhs.array.items.s) = 2
    /\ Len(Top.rhs.array.items.s) = 1
    /\ Len(Top.calls) = 1
    /\ walker.changes = <<Change(Top.json_path, [kind |-> "TupleChange", new_length |-> 1])>>

\* The names the records of one kind among those just emitted carry.
EmittedNames(kind) == {Emitted[i].change.property : i \in EmittedKinds(kind)}

\* C19: the required statement runs only at pairs neither side of which was
\* type-split, and there it emits exactly one RequiredRemove per name of
\* required(LHS) \ required(RHS) and one RequiredAdd per name of
\* required(RHS) \ required(LHS), all at the path of the pair, and nothing
\* else; RequiredRemove is non-breaking and RequiredAdd is breaking.
C19_RequiredFacet ==
    [][AtStatement("diff_required") =>
        LET lhs_required == Top.lhs.object.required
            rhs_required == Top.rhs.object.required
            removes == EmittedKinds("RequiredRemove")
            adds == EmittedKinds("RequiredAdd")
        IN  /\ ~Top.is_lhs_split /\ ~Top.is_rhs_split
            /\ removes \cup adds = 1..Len(Emitted)
            /\ EmittedNames("RequiredRemove") = lhs_required \ rhs_required
            /\ Cardinality(removes) = Cardinality(lhs_required \ rhs_required)
            /\ EmittedNames("RequiredAdd") = rhs_required \ lhs_required
            /\ Cardinality(adds) = Cardinality(rhs_required \ lhs_required)
            /\ \A i \in 1..Len(Emitted) : Emitted[i].path = Top.json_path
            /\ \A i \in removes : ~is_breaking(Emitted[i].change)
            /\ \A i \in adds : is_breaking(Emitted[i].change)]_vars

\* The required statement ran on a pair that shares one required name and
\* differs in another: only the name the RHS dropped was reported.
C19_Witness ==
    /\ stack # <<>>
    /\ Top.pc = "return"
    /\ ~Top.is_lhs_split /\ ~Top.is_rhs_split
    /\ Top.lhs.object.required = {"a", "b"}
    /\ Top.rhs.object.required = {"b"}
    /\ walker.changes = <<Change(Top.json_path,
                                 [kind |-> "RequiredRemove", property |-> "a"])>>

\* The statements of one walker call, in the order the claim gives them;
\* the first two emit nothing and the anyOf statement only descends.
StatementOrder ==
    <<"resolve_references", "split_types", "diff_any_of", "diff_instance_types",
      "diff_const", "diff_properties", "diff_range", "diff_additional_properties",
      "diff_array_items", "diff_required", "return">>

StatementIndex(pc) == CHOOSE i \in 1..Len(StatementOrder) : StatementOrder[i] = pc

\* The statement a record of each kind belongs to.
StatementOf(kind) ==
    CASE kind \in {"TypeRemove", "TypeAdd"} -> "diff_instance_types"
      [] kind \in {"ConstAdd", "ConstRemove", "ConstChange"} -> "diff_const"
      [] kind \in {"PropertyAdd", "PropertyRemove"} -> "diff_properties"
      [] kind \in {"RangeAdd", "RangeRemove", "RangeChange"} -> "diff_range"
      [] kind \in {"TupleToArray", "ArrayToTuple", "TupleChange"} -> "diff_array_items"
      [] kind \in {"RequiredAdd", "RequiredRemove"} -> "diff_required"
      [] OTHER -> "none"

KindOrder == <<"String", "Number", "Integer", "Object", "Array", "Boolean", "Null">>

KindIndex(ty) == CHOOSE i \in 1..Len(KindOrder) : KindOrder[i] = ty

\* The place of a type record in the order all TypeRemove records by kind,
\* then all TypeAdd records by kind.
TypeRecordIndex(change) ==
    IF change.kind = "TypeRemove"
    THEN KindIndex(change.removed)
    ELSE Len(KindOrder) + KindIndex(change.added)

\* C20: the change list only ever grows at its end; records are emitted
\* only by the statement the innermost call is at, with no descent of that
\* call pending, and belong to that statement; a call moves through its
\* statements in the order anyOf, type (TypeRemove records before TypeAdd
\* records, each group in kind order), const, properties, range,
\* additionalProperties, items, required; and while a descent is running the
\* calls below it stand still, so its records are contiguous.
C20_EmissionOrder ==
    [][/\ Len(walker'.changes) >= Len(walker.changes)
       /\ SubSeq(walker'.changes, 1, Len(walker.changes)) = walker.changes
       /\ Emitted # <<>> =>
            /\ stack # <<>>
            /\ Top.calls = <<>>
            /\ Len(stack') = Len(stack)
            /\ \A i \in 1..Len(Emitted) :
                 /\ StatementOf(Emitted[i].change.kind) = Top.pc
                 /\ Emitted[i].path = Top.json_path
       /\ AtStatement("diff_instance_types") =>
            \A i, j \in 1..Len(Emitted) :
                i < j => TypeRecordIndex(Emitted[i].change)
                            < TypeRecordIndex(Emitted[j].change)
       /\ (stack # <<>> /\ Len(stack') = Len(stack) /\ stack' # stack) =>
            /\ Top.calls = <<>>
            /\ SubSeq(stack', 1, Len(stack) - 1) = SubSeq(stack, 1, Len(stack) - 1)
            /\ StatementIndex(stack'[Len(stack)].pc) > StatementIndex(Top.pc)
       /\ Len(stack') > Len(stack) =>
            /\ Len(stack') = Len(stack) + 1
            /\ Emitted = <<>>
            /\ stack'[Len(stack')].pc = "resolve_references"
            /\ stack # <<>> =>
                 /\ SubSeq(stack', 1, Len(stack) - 1) = SubSeq(stack, 1, Len(stack) - 1)
                 /\ stack'[Len(stack)].pc = Top.pc
                 /\ stack'[Len(stack')].json_path = Head(Top.calls).json_path
       /\ Len(stack') < Len(stack) =>
            /\ Emitted = <<>>
            /\ \/ stack' = SubSeq(stack, 1, Len(stack) - 1)
               \/ result'.status = "Err"]_vars

\* A finished walk whose list holds a record of the root's properties
\* statement, then the records of the descent into a common property, then
\* the records of the descent into additionalProperties.
C20_Witness ==
    /\ result.status = "Ok"
    /\ \E i, j, k \in 1..Len(result.changes) :
        /\ i < j /\ j < k
        /\ result.changes[i].path = ""
        /\ result.changes[i].change.kind = "PropertyAdd"
        /\ result.changes[j].path = ".a"
        /\ result.changes[k].path = ".<additionalProperties>"
        /\ \A m \in 1..Len(result.changes) :
            /\ m < i => result.changes[m].path = ""
            /\ (i < m /\ m < k /\ result.changes[m].path # "")
                  => result.changes[m].path = ".a"

\* The const of a node when it is a primitive value, and whether the node
\* carries an object-valued const.
PrimitiveConst(node) ==
    IF node.const_value # None /\ node.const_value[1].t # "Object"
    THEN node.const_value
    ELSE None

HasObjectConst(node) ==
    node.const_value # None /\ node.const_value[1].t = "Object"

\* A node rewritten from an object-valued const: it carries no const, its
\* properties are the keys of the object, and the schema of a key with a
\* primitive value holds that value as const and nothing else.
IsRewrittenFrom(after, value) ==
    /\ after.const_value = None
    /\ MapKeys(after.object.properties) = MapKeys(value.o)
    /\ \A i \in 1..Len(value.o) :
         LET schema == MapGet(after.object.properties, value.o[i].k)[1]
         IN  IF value.o[i].v.t = "Object"
             THEN /\ schema.const_value = None
                  /\ MapKeys(schema.object.properties) = MapKeys(value.o[i].v.o)
             ELSE schema = WithConst(SchemaObjectDefault, value.o[i].v)

\* C21: the const statement on primitive consts: only the LHS has one, one
\* ConstRemove with its value; only the RHS, one ConstAdd; both and
\* unequal, ConstRemove then ConstAdd; equal or none, nothing.  A node with
\* an object-valued const is rewritten into properties, gives no Const
\* record, and the properties statement is the next to run on it.
C21_ConstFacet ==
    [][AtStatement("diff_const") =>
        LET l == PrimitiveConst(Top.lhs)
            r == PrimitiveConst(Top.rhs)
            path == Top.json_path
            after == stack'[Len(stack)]
        IN  /\ Emitted =
                 CASE l # None /\ r = None ->
                        <<Change(path, [kind |-> "ConstRemove", removed |-> l[1]])>>
                   [] l = None /\ r # None ->
                        <<Change(path, [kind |-> "ConstAdd", added |-> r[1]])>>
                   [] l # None /\ r # None /\ l # r ->
                        <<Change(path, [kind |-> "ConstRemove", removed |-> l[1]]),
                          Change(path, [kind |-> "ConstAdd", added |-> r[1]])>>
                   [] OTHER -> <<>>
            /\ HasObjectConst(Top.lhs) =>
                 IsRewrittenFrom(after.lhs, Top.lhs.const_value[1])
            /\ HasObjectConst(Top.rhs) =>
                 IsRewrittenFrom(after.rhs, Top.rhs.const_value[1])
            /\ (HasObjectConst(Top.lhs) \/ HasObjectConst(Top.rhs)) =>
                 after.pc = "diff_properties"]_vars

\* A whole call of do_diff run to its end on a walker: the statements of
\* do_diff in their order, each recursive call run where it is made.  Of
\* the answers minimize may give, one is taken.
RECURSIVE trial_do_diff(_, _), trial_calls(_, _)
trial_do_diff(self, call) ==
    LET path == call.json_path
        resolution == resolve_references(self, call.lhs, call.rhs)
        l == split_types(resolution.lhs)
        r == split_types(resolution.rhs)
        any_of == CHOOSE outcome \in
                      diff_any_of(resolution.self, path, r.is_split,
                                  l.schema_object, r.schema_object) : TRUE
        branches == trial_calls(any_of.self, any_of.calls)
        types == IF ~call.comparing_any_of
                 THEN diff_instance_types(branches, path, any_of.lhs, any_of.rhs)
                 ELSE branches
        const == diff_const(types, path, any_of.lhs, any_of.rhs)
        properties == diff_properties(const.self, path, const.lhs, const.rhs)
        range == diff_range(trial_calls(properties.self, properties.calls),
                            path, const.lhs, const.rhs)
        additional == diff_additional_properties(range, path, const.lhs, const.rhs)
        items == diff_array_items(trial_calls(additional.self, additional.calls),
                                  path, const.lhs, const.rhs)
    IN  IF resolution.res # "Ok" THEN resolution.self
        ELSE IF l.is_split \/ r.is_split THEN const.self
        ELSE diff_required(trial_calls(items.self, items.calls),
                           path, const.lhs, const.rhs)

trial_calls(self, calls) ==
    IF calls = <<>>
    THEN self
    ELSE trial_calls(trial_do_diff(self, Head(calls)), Tail(calls))

\* The number of change records a trial diff of one branch against another
\* produces at an empty path into a sink of its own.
TrialCount(lhs_branch, rhs_branch) ==
    Len(trial_do_diff(NewWalker(walker.lhs_root, walker.rhs_root),
                      Call("", FALSE, into_object(lhs_branch),
                           into_object(rhs_branch))).changes)

Pairings(n) ==
    {p \in [1..n -> 1..n] : \A i, j \in 1..n : p[i] = p[j] => i = j}

TrialCost(lhs_any_of, rhs_any_of, p) ==
    SumSeq([i \in 1..Len(lhs_any_of) |-> TrialCount(lhs_any_of[i], rhs_any_of[p[i]])])

\* C22: when both sides carry anyOf the shorter list is padded with false
\* branches to the common length n, cell (i, j) of the cost matrix is the
\* number of records of a trial diff of lhs[i] against rhs[j], building the
\* matrix emits nothing, and the n branch calls pair the LHS branches with
\* a permutation of the RHS branches of minimal total trial cost.
C22_AlignmentObjective ==
    [][(/\ AtStatement("diff_any_of")
        /\ Top.lhs.subschemas.any_of # None
        /\ Top.rhs.subschemas.any_of # None) =>
        LET before_l == Top.lhs.subschemas.any_of[1]
            before_r == Top.rhs.subschemas.any_of[1]
            n == IF Len(before_l) < Len(before_r) THEN Len(before_r) ELSE Len(before_l)
            after == stack'[Len(stack)]
            lhs_any_of == after.lhs.subschemas.any_of[1]
            rhs_any_of == after.rhs.subschemas.any_of[1]
            mat == any_of_matrix(lhs_any_of, rhs_any_of)
        IN  /\ lhs_any_of = before_l \o [i \in 1..(n - Len(before_l)) |-> SchemaBool(FALSE)]
            /\ rhs_any_of = before_r \o [i \in 1..(n - Len(before_r)) |-> SchemaBool(FALSE)]
            /\ Emitted = <<>>
            /\ \A i, j \in 1..n :
                 mat[(i - 1) * n + j] = TrialCount(lhs_any_of[i], rhs_any_of[j])
            /\ Len(after.calls) = n
            /\ \E p \in Pairings(n) :
                 /\ \A i \in 1..n :
                      /\ after.calls[i].lhs = into_object(lhs_any_of[i])
                      /\ after.calls[i].rhs = into_object(rhs_any_of[p[i]])
                 /\ \A q \in Pairings(n) :
                      TrialCost(lhs_any_of, rhs_any_of, p)
                          <= TrialCost(lhs_any_of, rhs_any_of, q)]_vars

\* C23: when both sides carry anyOf the anyOf statement makes exactly n
\* branch calls, the i-th on LHS branch i and the RHS branch the alignment
\* paired with it, at the parent path followed by .<anyOf:j> with j the RHS
\* index, or at the parent path itself when the RHS was type-split in this
\* call; otherwise it makes none.  A branch call emits no type record for
\* its pair, and the calls made by every other statement are not branch
\* calls, so type records are emitted again below a branch.
C23_BranchRecursion ==
    [][/\ AtStatement("diff_any_of") =>
            LET after == stack'[Len(stack)]
            IN  IF Top.lhs.subschemas.any_of # None /\ Top.rhs.subschemas.any_of # None
                THEN LET lhs_any_of == after.lhs.subschemas.any_of[1]
                         rhs_any_of == after.rhs.subschemas.any_of[1]
                         l == Len(Top.lhs.subschemas.any_of[1])
                         r == Len(Top.rhs.subschemas.any_of[1])
                         n == IF l < r THEN r ELSE l
                     IN  /\ Len(lhs_any_of) = n /\ Len(rhs_any_of) = n
                         /\ Len(after.calls) = n
                         /\ \E p \in Pairings(n) : \A i \in 1..n :
                              after.calls[i] =
                                [json_path |->
                                    IF Top.is_rhs_split
                                    THEN Top.json_path
                                    ELSE Top.json_path \o ".<anyOf:"
                                            \o ToString(p[i] - 1) \o ">",
                                 comparing_any_of |-> TRUE,
                                 lhs |-> into_object(lhs_any_of[i]),
                                 rhs |-> into_object(rhs_any_of[p[i]])]
                ELSE after.calls = <<>>
       /\ (AtStatement("diff_instance_types") /\ Top.comparing_any_of) =>
            Emitted = <<>>
       /\ (stack # <<>> /\ Len(stack') = Len(stack) + 1) =>
            (stack'[Len(stack')].comparing_any_of <=> Top.pc = "diff_instance_types")]_vars

\* A finished walk that paired two array branches and reported, below the
\* second branch, the type records of the item schemas.
C23_Witness ==
    /\ result.status = "Ok"
    /\ lhs_value.schema.subschemas.any_of # None
    /\ rhs_value.schema.subschemas.any_of # None
    /\ \E i \in 1..Len(result.changes) :
        /\ result.changes[i].path = ".<anyOf:1>.?"
        /\ result.changes[i].change.kind = "TypeRemove"

\* The differences between two nodes in the range, required and properties
\* keywords: one for each bound that differs and one for each required name
\* and each property name that only one of the nodes has.
SymmetricDifference(A, B) == (A \ B) \cup (B \ A)

FacetDifferences(lhs, rhs) ==
    (IF lhs.number.minimum # rhs.number.minimum THEN 1 ELSE 0)
    + (IF lhs.number.maximum # rhs.number.maximum THEN 1 ELSE 0)
    + Cardinality(SymmetricDifference(lhs.object.required, rhs.object.required))
    + Cardinality(SymmetricDifference(MapKeys(lhs.object.properties),
                                      MapKeys(rhs.object.properties)))

\* The records of those three facets in a change list, at whatever path.
FacetRecords(changes) ==
    Cardinality({i \in 1..Len(changes) :
        changes[i].change.kind \in
            {"RangeAdd", "RangeRemove", "RangeChange",
             "RequiredAdd", "RequiredRemove", "PropertyAdd", "PropertyRemove"}})

IsTypeSplit(node) ==
    node.instance_type.form = "Vec" /\ node.subschemas.any_of = None

\* C24: at a pair one side of which was type-split the walker goes from the
\* const statement straight to its return, running none of the properties,
\* range, additionalProperties, items and required statements; and for two
\* root nodes without const one of which is a type list, every difference
\* in range, required and properties between them is in the returned list
\* exactly once, also when the other node carries no anyOf.
C24_SplitFacets ==
    [][/\ (AtStatement("diff_const") /\ (Top.is_lhs_split \/ Top.is_rhs_split)) =>
            stack'[Len(stack)].pc = "return"
       /\ (/\ result'.status = "Ok"
           /\ result.status = "none"
           /\ lhs_value.schema.const_value = None
           /\ rhs_value.schema.const_value = None
           /\ IsTypeSplit(lhs_value.schema) \/ IsTypeSplit(rhs_value.schema)) =>
            FacetRecords(result'.changes)
                = FacetDifferences(lhs_value.schema, rhs_value.schema)]_vars

\* The branch type-splitting makes for one listed type: that single type
\* and the facet block of the node that matches it, nothing else.
BranchFor(node, ty) ==
    [SchemaObjectDefault EXCEPT
        !.instance_type = [form |-> "Single", tys |-> <<ty>>],
        !.string = IF ty = "String" THEN node.string ELSE SchemaObjectDefault.string,
        !.number = IF ty \in {"Number", "Integer"}
                   THEN node.number ELSE SchemaObjectDefault.number,
        !.object = IF ty = "Object" THEN node.object ELSE SchemaObjectDefault.object,
        !.array = IF ty = "Array" THEN node.array ELSE SchemaObjectDefault.array]

SplitsAsClaimed(before, after, is_split) ==
    LET ty == effective_type(before)
    IN  /\ is_split <=> (ty.tag = "Multiple" /\ before.subschemas.any_of = None)
        /\ is_split =>
             after = [SchemaObjectDefault EXCEPT !.subschemas.any_of =
                        Some([i \in 1..Len(ty.tys) |-> BranchFor(before, ty.tys[i])])]
        /\ ~is_split => after = before
        /\ split_types(after).schema_object = after

\* C25: the split statement rewrites a side exactly when its effective type
\* is Multiple and it carries no anyOf, and flags it as split; the rewritten
\* node holds nothing but an anyOf with one branch per listed type in list
\* order, each with that type and only the matching facet block; a side not
\* rewritten is unchanged and not flagged; splitting the result again
\* changes nothing.
C25_TypeSplitting ==
    [][AtStatement("split_types") =>
        LET after == stack'[Len(stack)]
        IN  /\ SplitsAsClaimed(Top.lhs, after.lhs, after.is_lhs_split)
            /\ SplitsAsClaimed(Top.rhs, after.rhs, after.is_rhs_split)]_vars

\* The split statement ran on an LHS listing Object and Array that carries
\* all four facet blocks: the Object branch kept the required names and no
\* minimum, the Array branch kept the items.
C25_Witness ==
    /\ stack # <<>>
    /\ Top.pc = "diff_any_of"
    /\ Top.is_lhs_split
    /\ lhs_value.schema.number.minimum = Some(1)
    /\ Len(Top.lhs.subschemas.any_of[1]) = 2
    /\ Top.lhs.subschemas.any_of[1][1].object.required = {"a"}
    /\ Top.lhs.subschemas.any_of[1][1].number.minimum = None
    /\ Top.lhs.subschemas.any_of[1][2].array.items.form = "Single"
    /\ Top.lhs.object.required = {}

\* The changes of a root call with the statements in the order of do_diff
\* (type-splitting, then const normalization), and of the same call on
\* nodes const-normalized beforehand (const normalization, then
\* type-splitting; normalizing a normalized node changes nothing).
SplitThenNormalize(lhs, rhs) ==
    trial_do_diff(NewWalker(walker.lhs_root, walker.rhs_root),
                  Call("", FALSE, lhs, rhs)).changes

NormalizeThenSplit(lhs, rhs) ==
    trial_do_diff(NewWalker(walker.lhs_root, walker.rhs_root),
                  Call("", FALSE, normalize_const(lhs), normalize_const(rhs))).changes

\* C26: for every pair of root nodes, one carrying both a type list and a
\* const included, type-splitting before const normalization and const
\* normalization before type-splitting give the same changes.
C26_NormalizationsCommute ==
    SplitThenNormalize(lhs_value.schema, rhs_value.schema)
        = NormalizeThenSplit(lhs_value.schema, rhs_value.schema)

AllKinds == {"String", "Number", "Integer", "Object", "Array", "Boolean", "Null"}

\* The set a kind expands to: Number stands for Number and Integer.
ExpandKind(k) == IF k = "Number" THEN {"Number", "Integer"} ELSE {k}

\* The JSON kind of a const value.
JsonKind(value) == IF value.t = "Bool" THEN "Boolean" ELSE value.t

\* The rule that decides the effective type of a node, the first that
\* applies, and the expanded set of kinds it gives.
DecidingRule(node) ==
    CASE node.instance_type.form # "None" -> "type"
      [] node.const_value # None -> "const"
      [] node.object.properties # <<>> -> "properties"
      [] node.subschemas.any_of # None -> "anyOf"
      [] node.subschemas.not = Some(SchemaBool(TRUE))
            \/ node.subschemas.not = Some(SchemaObjectDefault) -> "not"
      [] OTHER -> "any"

RECURSIVE ClaimedKinds(_)
ClaimedKinds(node) ==
    CASE DecidingRule(node) = "type" ->
            UNION {ExpandKind(node.instance_type.tys[i]) :
                      i \in 1..Len(node.instance_type.tys)}
      [] DecidingRule(node) = "const" -> ExpandKind(JsonKind(node.const_value[1]))
      [] DecidingRule(node) = "properties" -> {"Object"}
      [] DecidingRule(node) = "anyOf" ->
            UNION {ClaimedKinds(into_object(node.subschemas.any_of[1][i])) :
                      i \in 1..Len(node.subschemas.any_of[1])}
      [] DecidingRule(node) = "not" -> {}
      [] DecidingRule(node) = "any" -> AllKinds

ClaimedTag(node) ==
    CASE DecidingRule(node) = "type" ->
            IF node.instance_type.form = "Single" THEN "Simple" ELSE "Multiple"
      [] DecidingRule(node) \in {"const", "properties"} -> "Simple"
      [] DecidingRule(node) = "anyOf" -> "Multiple"
      [] DecidingRule(node) = "not" -> "Never"
      [] DecidingRule(node) = "any" -> "Any"

EffectiveTypeAsClaimed(node) ==
    /\ effective_type(node).tag = ClaimedTag(node)
    /\ into_set(effective_type(node)) = ClaimedKinds(node)
    /\ (node.reference # None /\ DecidingRule(node) = "any") =>
            effective_type(node) = TyAny

\* C27: wherever the walker asks for the effective type of the two nodes of
\* a pair (when it splits types and when it diffs the type sets), the answer
\* is the one of the first rule that applies among type, const, properties,
\* anyOf, not, any; it is computed from the node alone, a $ref on it or on
\* an anyOf branch counting as Any; and its expansion is the union of the
\* kinds, Number standing for Number and Integer, Any for all seven kinds,
\* Never for none.
C27_EffectiveType ==
    [][(AtStatement("split_types") \/ AtStatement("diff_instance_types")) =>
        /\ EffectiveTypeAsClaimed(Top.lhs)
        /\ EffectiveTypeAsClaimed(Top.rhs)]_vars

\* A finished walk of a node whose only anyOf branch is a $ref against the
\* type String: the $ref branch counted as Any, so six kinds were removed at
\* the root.
C27_Witness ==
    /\ result.status = "Ok"
    /\ lhs_value.schema = AnyOf(<<Ref("#/definitions/A")>>)
    /\ rhs_value.schema = Ty("String")
    /\ {i \in 1..Len(result.changes) :
            /\ result.changes[i].path = ""
            /\ result.changes[i].change.kind = "TypeRemove"}
         = 1..6

MaxOf(S) == CHOOSE x \in S : \A y \in S : y <= x

\* The depth of a schema with references expanded, as the walker meets it:
\* a $ref stands for the body of its definition, a type list for its
\* per-type branches, an object-valued const for its properties; below a
\* node are its anyOf branches and, unless it is a type list, its property
\* schemas, its additionalProperties schema and its item schemas.
RECURSIVE ExpandedDepth(_, _)
ExpandedDepth(root, schema) ==
    LET given == into_object(schema)
        definition == IF given.reference # None
                      THEN resolve_ref(root, given.reference[1])
                      ELSE None
        node == IF definition # None THEN into_object(definition[1]) ELSE given
        split == split_types(node)
        normalized == normalize_const(split.schema_object)
        branches == IF split.schema_object.subschemas.any_of # None
                    THEN RangeOf(split.schema_object.subschemas.any_of[1])
                    ELSE {}
        facets == IF split.is_split
                  THEN {}
                  ELSE {normalized.object.properties[i].v :
                            i \in 1..Len(normalized.object.properties)}
                       \cup RangeOf(normalized.object.additional_properties)
                       \cup RangeOf(normalized.array.items.s)
    IN  1 + MaxOf({0} \cup {ExpandedDepth(root, child) : child \in branches \cup facets})

\* C28: on roots whose definitions have no cycle diff eventually returns;
\* every recursive call is made on nodes of strictly smaller expanded depth
\* than the nodes of the caller, and the number of calls in progress never
\* exceeds the expanded depth of the deeper root.
C28_Termination ==
    /\ <>(result.status # "none")
    /\ [](Len(stack) <= MaxOf({ExpandedDepth(lhs_value, lhs_value.schema),
                               ExpandedDepth(rhs_value, rhs_value.schema)}))
    /\ [][(stack # <<>> /\ Len(stack') = Len(stack) + 1) =>
            /\ ExpandedDepth(lhs_value, stack'[Len(stack')].lhs)
                 < ExpandedDepth(lhs_value, Top.lhs)
            /\ ExpandedDepth(rhs_value, stack'[Len(stack')].rhs)
                 < ExpandedDepth(rhs_value, Top.rhs)]_vars

\* The walker is four calls deep: below the root it went through a
\* definition body, a property of it, and the items of the definition that
\* property refers to.
C28_Witness ==
    /\ Len(stack) = 4
    /\ lhs_value.definitions = AcyclicDefinitions
    /\ lhs_value.schema.object.properties # <<>>
    /\ lhs_value.schema.object.properties[1].v = Ref("#/definitions/A")
    /\ Top.json_path = ".a.a.?"
    /\ Top.lhs = Ty("String")

\* The definition of a root a node's $ref names, if it names one.
NamedDefinition(root, node) ==
    IF node.reference = None
    THEN None
    ELSE LET named == {i \in 1..Len(root.definitions) :
                          node.reference[1] = "#/definitions/" \o root.definitions[i].k}
         IN  IF named = {} THEN None
             ELSE Some(root.definitions[CHOOSE i \in named : TRUE].v)

\* A root whose schema is a $ref to a definition that is a $ref to a
\* definition of a single type, and the root whose schema is the second
\* $ref itself, over the same definitions.
IsChainTo(chain, direct) ==
    LET first == NamedDefinition(chain, chain.schema)
    IN  /\ first # None
        /\ first[1].reference # None
        /\ direct.schema = first[1]
        /\ direct.definitions = chain.definitions
        /\ NamedDefinition(chain, first[1]) # None
        /\ NamedDefinition(chain, first[1])[1].instance_type.form = "Single"

\* C29: the resolve statement replaces a node whose $ref names a definition
\* by that definition, once, also when the definition carries a $ref; a
\* node that still carries a $ref afterwards stays as it is for the rest of
\* the call and has effective type Any; so the diff of a chain of two
\* references against its final target is not empty: it holds the
\* TypeRemove records of the kinds the target excludes and a PropertyAdd
\* for each property of the target, the chain having no facets.
C29_OneStepResolution ==
    [][/\ AtStatement("resolve_references") =>
            LET after == stack'[Len(stack)]
                l == NamedDefinition(lhs_value, Top.lhs)
                r == NamedDefinition(rhs_value, Top.rhs)
            IN  /\ after.lhs = IF l # None THEN into_object(l[1]) ELSE Top.lhs
                /\ after.rhs = IF r # None THEN into_object(r[1]) ELSE Top.rhs
                /\ after.pc = "split_types"
       /\ (/\ stack # <<>>
           /\ Top.pc # "resolve_references"
           /\ Len(stack') >= Len(stack)) =>
            /\ Top.lhs.reference # None =>
                 /\ stack'[Len(stack)].lhs = Top.lhs
                 /\ effective_type(Top.lhs) = TyAny
            /\ Top.rhs.reference # None =>
                 /\ stack'[Len(stack)].rhs = Top.rhs
                 /\ effective_type(Top.rhs) = TyAny
       /\ (/\ result'.status = "Ok"
           /\ result.status = "none"
           /\ IsChainTo(lhs_value, rhs_value)) =>
            /\ result'.changes # <<>>
            /\ \A i \in 1..Len(result'.changes) :
                 result'.changes[i].change.kind \in {"TypeRemove", "PropertyAdd"}]_vars

\* A finished walk of a chain of two references against its final target,
\* an object definition: the chain counted as Any and lost six kinds.
C29_Witness ==
    /\ result.status = "Ok"
    /\ IsChainTo(lhs_value, rhs_value)
    /\ Len(result.changes) >= 6
    /\ result.changes[1] = Change("", [kind |-> "TypeRemove", removed |-> "String"])

\* A node that carries nothing but a const, minimum, maximum, required,
\* items and properties.
OnlyConstAndFacets(node) ==
    node = [SchemaObjectDefault EXCEPT
                !.const_value = node.const_value,
                !.number.minimum = node.number.minimum,
                !.number.maximum = node.number.maximum,
                !.object.required = node.object.required,
                !.object.properties = node.object.properties,
                !.array.items = node.array.items]

\* The const-normalized form of a node with a const.
IsConstNormalized(after, before) ==
    IF before.const_value = None
    THEN after = before
    ELSE IF before.const_value[1].t = "Object"
         THEN IsRewrittenFrom(after, before.const_value[1])
         ELSE after = WithConst(SchemaObjectDefault, before.const_value[1])

\* The const statement replaces each side that carries a const by its
\* const-normalized form, and the statements after it leave both sides as
\* they find them.
ConstReplacesNode ==
    /\ AtStatement("diff_const") =>
         /\ IsConstNormalized(stack'[Len(stack)].lhs, Top.lhs)
         /\ IsConstNormalized(stack'[Len(stack)].rhs, Top.rhs)
    /\ (/\ stack # <<>>
        /\ Top.pc \in {"diff_properties", "diff_range", "diff_additional_properties",
                       "diff_array_items", "diff_required"}
        /\ Len(stack') >= Len(stack)) =>
         /\ stack'[Len(stack)].lhs = Top.lhs
         /\ stack'[Len(stack)].rhs = Top.rhs

\* A walk of two roots that carry the same primitive const and otherwise
\* only minimum, maximum, required, items and properties returns no change.
EqualConstHidesFacets ==
    (/\ result'.status = "Ok"
     /\ result.status = "none"
     /\ OnlyConstAndFacets(lhs_value.schema)
     /\ OnlyConstAndFacets(rhs_value.schema)
     /\ PrimitiveConst(lhs_value.schema) # None
     /\ PrimitiveConst(lhs_value.schema) = PrimitiveConst(rhs_value.schema)) =>
        result'.changes = <<>>

\* The records that report the minimum, maximum, required names and
\* properties of a const-free node as added (or as removed).
FacetsReported(changes, free, added) ==
    /\ free.number.minimum # None =>
         \E i \in 1..Len(changes) :
            /\ changes[i].path = ""
            /\ changes[i].change.kind = IF added THEN "RangeAdd" ELSE "RangeRemove"
            /\ changes[i].change.value = free.number.minimum[1]
            /\ "Minimum" = IF added THEN changes[i].change.added
                                    ELSE changes[i].change.removed
    /\ free.number.maximum # None =>
         \E i \in 1..Len(changes) :
            /\ changes[i].path = ""
            /\ changes[i].change.kind = IF added THEN "RangeAdd" ELSE "RangeRemove"
            /\ changes[i].change.value = free.number.maximum[1]
            /\ "Maximum" = IF added THEN changes[i].change.added
                                    ELSE changes[i].change.removed
    /\ \A name \in free.object.required :
         \E i \in 1..Len(changes) :
            /\ changes[i].path = ""
            /\ changes[i].change.kind = IF added THEN "RequiredAdd" ELSE "RequiredRemove"
            /\ changes[i].change.property = name
    /\ \A key \in MapKeys(free.object.properties) :
         \E i \in 1..Len(changes) :
            /\ changes[i].path = ""
            /\ changes[i].change.kind = IF added THEN "PropertyAdd" ELSE "PropertyRemove"
            /\ key = IF added THEN changes[i].change.added ELSE changes[i].change.removed

\* A record of the items statement at the root for the items of a
\* const-free node.
ItemsReported(changes, free) ==
    free.array.items.form # "None" =>
        \E i \in 1..Len(changes) :
            /\ changes[i].path = ""
            /\ changes[i].change.kind \in {"ArrayToTuple", "TupleToArray", "TupleChange"}

\* A finished walk of a root with nothing but a primitive const against a
\* const-free root with some of the five keywords, either way round.
ConstAgainstFacets(with_const, free) ==
    /\ result'.status = "Ok"
    /\ result.status = "none"
    /\ PrimitiveConst(with_const) # None
    /\ with_const = WithConst(SchemaObjectDefault, with_const.const_value[1])
    /\ free.const_value = None
    /\ OnlyConstAndFacets(free)

\* C30 as stated: the const statement replaces a node with a const by its
\* const-normalized form for the rest of the call; equal primitive consts
\* hide every difference in minimum, maximum, required, items and
\* properties; and each of these five keywords that only the const-free
\* side has is reported, items included.
C30_EveryKeywordReported ==
    [][/\ ConstReplacesNode
       /\ EqualConstHidesFacets
       /\ ConstAgainstFacets(lhs_value.schema, rhs_value.schema) =>
            /\ FacetsReported(result'.changes, rhs_value.schema, TRUE)
            /\ ItemsReported(result'.changes, rhs_value.schema)
       /\ ConstAgainstFacets(rhs_value.schema, lhs_value.schema) =>
            /\ FacetsReported(result'.changes, lhs_value.schema, FALSE)
            /\ ItemsReported(result'.changes, lhs_value.schema)]_vars

\* C30: the const statement replaces a node with a const by its
\* const-normalized form for the rest of the call; equal primitive consts
\* hide every difference in minimum, maximum, required, items and
\* properties; and a minimum, maximum, required name or property that only
\* the const-free side has is reported as added or removed.
C30_ConstReplacesNode ==
    [][/\ ConstReplacesNode
       /\ EqualConstHidesFacets
       /\ ConstAgainstFacets(lhs_value.schema, rhs_value.schema) =>
            FacetsReported(result'.changes, rhs_value.schema, TRUE)
       /\ ConstAgainstFacets(rhs_value.schema, lhs_value.schema) =>
            FacetsReported(result'.changes, lhs_value.schema, FALSE)]_vars

\* A finished walk of two roots with the same const, one with a minimum
\* and the other with required names: nothing was reported.
C30_Witness ==
    /\ result.status = "Ok"
    /\ result.changes = <<>>
    /\ lhs_value.schema = WithConst(WithMin(SchemaObjectDefault, 1), JsonNumber("1"))
    /\ rhs_value.schema = WithConst(WithRequired(SchemaObjectDefault, {"a"}),
                                    JsonNumber("1"))

====
